---- MODULE Spec2Model ----
(***************************************************************************)
(* A model of the filmatch application's preference and counter logic:     *)
(*   - MovieDetailScreen: rating / status edits of one movie and the save  *)
(*     that writes the movie record and adjusts the profile counters;      *)
(*   - the debounced movie search of the onboarding / edit screens;        *)
(*   - session start, the onboarding wizard and its commit;                *)
(*   - the wizard's handlers and gate, and EditPreferencesScreen.          *)
(* Each part has its own specification (SpecMovie, SpecSearch, SpecOnb,    *)
(* SpecGate, SpecPrefs); the variables of the other parts stay at their    *)
(* initial values.                                                         *)
(***************************************************************************)
EXTENDS Integers, Sequences, FiniteSets, TLC

VARIABLES
  \* ---- Firestore, as seen by MovieDetailScreen
  movieDocs,    \* users/{uid}/movies/{id}: [exists, rating (0 = null), status]
  userDoc,      \* users/{uid}: [exists, hasCounters, watchedMovies, watchlistMovies]
  \* ---- MovieDetailScreen component state
  open,         \* the movie the screen shows, or NoMovie
  userStatus,   \* movie.userStatus ("none" stands for null / undefined)
  tempRating,   \* tempRating
  hasChanges,   \* hasChanges
  isLoading,    \* isLoading
  loads,        \* which of loadMovieDetails / loadUserData are still pending
  save,         \* the running handleSave: its position and its captured values
  lastSave,     \* history: what the last completed save of this screen did
  \* ---- the movie search of OnboardingScreen / EditPreferencesScreen
  searchQuery,  \* searchQuery, a sequence of characters
  searchResults,\* searchResults: the query they answer and whether any came
  searching,    \* searching
  timer,        \* the pending setTimeout(search, 500) and the query it closes over
  inflight,     \* the searchMovies calls that have not resolved yet
  dispatched,   \* how many searchMovies calls were made so far
  \* ---- Firestore profile document and AsyncStorage
  profile,      \* users/{uid}: [exists, hasCompletedOnboarding, favorites, ...]
  localHas,     \* AsyncStorage '@hasOnboarded:<uid>': "none" or "true"
  localPref,    \* AsyncStorage '@userPreferences:<uid>': a snapshot or NoSnapshot
  \* ---- App
  currentScreen,\* currentScreen
  listener,     \* position of the running onAuthStateChanged callback
  sessions,     \* how many times the app was started
  \* ---- OnboardingScreen
  checking,     \* position of checkExisting ("off": the screen is not mounted)
  checkRemote,  \* the local variable remote of checkExisting
  loadingGenres,\* loadingGenres
  step,         \* step
  favorites,    \* favorites
  recentWatches,\* recentWatches
  genreRatings, \* genreRatings
  movieToRate,  \* movieToRate (showRatingModal is movieToRate # NoPick)
  modalRating,  \* tempRating of the rating modal
  commits,      \* the running final-step handleNext calls, with what they captured
  started,      \* how many commits were started so far
  entry,        \* history: how this session entered the main experience,
                \* whether the profile was completed, whether the read failed
  lastCommit,   \* history: what the latest successful updateOnboardingData wrote
  canProceed,   \* what canProceedFromStep() returned in the last render
  \* ---- EditPreferencesScreen
  editOpen,          \* the screen is mounted
  editLoading,       \* loading
  saving,            \* saving
  savePending,       \* the running saveChanges and the preferences it captured
  activeTab,         \* activeTab
  editFavorites,     \* favorites
  editRecentWatches, \* recentWatches
  editGenreRatings,  \* genreRatings
  editMovieToRate,   \* movieToRate (showRatingModal is editMovieToRate # NoPick)
  editTempRating,    \* tempRating
  editAlert,         \* the Alert.alert of saveChanges on the screen, or "none"
  saveTaps,          \* history: how many times saveChanges was invoked
  \* ---- Firebase Auth
  authUser,          \* auth.currentUser: "none", "unverified" or "verified"
  handleAuth,        \* position of AuthScreen.handleAuth / App.handleAuthComplete
  \* ---- ChatScreen
  chatDoc,           \* chats/{chatId} exists
  chatMessages,      \* chats/{chatId}/messages: the texts, in the order added
  chatInit,          \* position of initializeChat
  inputText,         \* inputText
  sending,           \* sending
  send,              \* the running sendMessage and the text it took
  chatAlert,         \* the Alert.alert of ChatScreen on the screen, or "none"
  sends              \* history: how many times sendMessage went past its guard

movieVars == <<movieDocs, userDoc, open, userStatus, tempRating, hasChanges,
               isLoading, loads, save, lastSave>>

searchVars == <<searchQuery, searchResults, searching, timer, inflight,
                dispatched>>

storeVars == <<profile, localHas, localPref>>
appVars == <<currentScreen, listener, sessions>>
wizardVars == <<step, favorites, recentWatches, genreRatings, movieToRate,
                modalRating>>
onbVars == <<storeVars, appVars, checking, checkRemote, loadingGenres,
             wizardVars, commits, started, entry, lastCommit>>

gateVars == <<canProceed>>
editListVars == <<editFavorites, editRecentWatches, editGenreRatings,
                  editMovieToRate, editTempRating>>
editVars == <<editOpen, editLoading, saving, savePending, activeTab,
              editListVars>>
saveVars == <<editAlert, saveTaps>>
authVars == <<authUser, handleAuth>>

chatVars == <<chatDoc, chatMessages, chatInit, inputText, sending, send,
              chatAlert, sends>>

vars == <<movieVars, searchVars, onbVars, gateVars, editVars, saveVars,
          authVars, chatVars>>

\* what the actions of one part leave alone
notMovieVars ==
  <<searchVars, onbVars, gateVars, editVars, saveVars, authVars, chatVars>>
notSearchVars ==
  <<movieVars, onbVars, gateVars, editVars, saveVars, authVars, chatVars>>
notOnbVars ==
  <<movieVars, searchVars, gateVars, editVars, saveVars, authVars, chatVars>>
notOnbSearchVars ==
  <<movieVars, gateVars, editVars, saveVars, authVars, chatVars>>

\* ------------------------------------------------------------------------
\* Bounds
\* ------------------------------------------------------------------------
Movies == {"m1", "m2"}   \* the movies the user opens
MaxStar == 2             \* the stars the user taps are 1..MaxStar
MaxCount == 2            \* no save is started once watchedMovies reached it
MaxSearches == 3         \* no search is dispatched after this many
MaxSessions == 2         \* the app is started at most this many times
MaxCommits == 2          \* at most this many onboarding commits are started
\* the texts the user types into the search field
Queries == { <<>>, <<"a">>, <<" ", "a", " ">>, <<"a", "b">>, <<"a", "b", "c">> }

NoMovie == "nomovie"
Stars == 1..MaxStar
Status == {"none", "watched", "watchlist"}

Max0(x) == IF x < 0 THEN 0 ELSE x

\* ------------------------------------------------------------------------
\* MovieDetailScreen
\* ------------------------------------------------------------------------
NoDoc == [exists |-> FALSE, rating |-> 0, status |-> "none"]
IdleSave == [pc |-> "idle", movie |-> NoMovie, userStatus |-> "none",
             tempRating |-> 0, finalStatus |-> "none", prevStored |-> "none",
             w0 |-> 0, l0 |-> 0, watchedCount |-> 0, watchlistCount |-> 0]
NoLastSave == [valid |-> FALSE, prev |-> "none", new |-> "none",
               w0 |-> 0, l0 |-> 0, w1 |-> 0, l1 |-> 0]

MovieInit ==
  /\ movieDocs = [m \in Movies |-> NoDoc]
  /\ userDoc \in { [exists |-> e, hasCounters |-> FALSE,
                    watchedMovies |-> 0, watchlistMovies |-> 0] : e \in BOOLEAN }
  /\ open = NoMovie
  /\ userStatus = "none"
  /\ tempRating = 0
  /\ hasChanges = FALSE
  /\ isLoading = FALSE
  /\ loads = {}
  /\ save = IdleSave
  /\ lastSave = NoLastSave

MovieIdle ==
  /\ movieDocs = [m \in Movies |-> NoDoc]
  /\ userDoc = [exists |-> FALSE, hasCounters |-> FALSE,
                watchedMovies |-> 0, watchlistMovies |-> 0]
  /\ open = NoMovie
  /\ userStatus = "none"
  /\ tempRating = 0
  /\ hasChanges = FALSE
  /\ isLoading = FALSE
  /\ loads = {}
  /\ save = IdleSave
  /\ lastSave = NoLastSave

\* navigation.navigate('MovieDetail', { movie }): the callers pass a catalog
\* movie, which carries no userStatus and no userRating.
OpenMovie(m) ==
  /\ open = NoMovie
  /\ save.pc = "idle"
  /\ open' = m
  /\ userStatus' = "none"
  /\ tempRating' = 0
  /\ hasChanges' = FALSE
  /\ isLoading' = FALSE
  /\ loads' = {"details", "user"}
  /\ lastSave' = NoLastSave
  /\ UNCHANGED <<movieDocs, userDoc, save>>
  /\ UNCHANGED notMovieVars

\* loadMovieDetails: on success setMovie({...details, userStatus:
\* movie.userStatus}) with the movie of the first render (the navigation
\* parameter); a failed or empty lookup changes nothing.
LoadMovieDetails ==
  /\ open # NoMovie
  /\ "details" \in loads
  /\ save.pc # "savedAlert"
  /\ loads' = loads \ {"details"}
  /\ \E ok \in BOOLEAN : userStatus' = IF ok THEN "none" ELSE userStatus
  /\ UNCHANGED <<movieDocs, userDoc, open, tempRating, hasChanges, isLoading,
                 save, lastSave>>
  /\ UNCHANGED notMovieVars

\* loadUserData: getDoc of the movie record; an existing record replaces the
\* local status and rating, a missing one or a failed read changes nothing.
LoadUserData ==
  /\ open # NoMovie
  /\ "user" \in loads
  /\ save.pc # "savedAlert"
  /\ loads' = loads \ {"user"}
  /\ \E ok \in BOOLEAN :
       IF ok /\ movieDocs[open].exists
       THEN /\ userStatus' = movieDocs[open].status
            /\ tempRating' = movieDocs[open].rating
       ELSE UNCHANGED <<userStatus, tempRating>>
  /\ UNCHANGED <<movieDocs, userDoc, open, hasChanges, isLoading, save, lastSave>>
  /\ UNCHANGED notMovieVars

\* handleRatingChange(rating)
HandleRatingChange(rating) ==
  /\ open # NoMovie
  /\ save.pc # "savedAlert"
  /\ LET newRating == IF tempRating = rating THEN 0 ELSE rating
     IN /\ tempRating' = newRating
        /\ hasChanges' = TRUE
        /\ userStatus' = IF newRating > 0 THEN "watched" ELSE userStatus
  /\ UNCHANGED <<movieDocs, userDoc, open, isLoading, loads, save, lastSave>>
  /\ UNCHANGED notMovieVars

\* handleStatusChange(status)
HandleStatusChange(status) ==
  /\ open # NoMovie
  /\ save.pc # "savedAlert"
  /\ userStatus' = IF userStatus = status THEN "none" ELSE status
  /\ hasChanges' = TRUE
  /\ UNCHANGED <<movieDocs, userDoc, open, tempRating, isLoading, loads, save,
                 lastSave>>
  /\ UNCHANGED notMovieVars

FinalStatusAsSelected(rating, status) == status

\* finalStatus of handleSave
FinalStatus(rating, status) == IF rating > 0 THEN "watched" ELSE status

\* handleSave, up to the first await: the save button is rendered when
\* hasChanges and disabled while isLoading; the handler works on the movie and
\* tempRating of the render it was tapped in. With no current user it shows
\* the 'You must be logged in' alert and returns.
HandleSave ==
  /\ open # NoMovie
  /\ authUser # "none"
  /\ hasChanges
  /\ ~isLoading
  /\ save.pc = "idle"
  /\ userDoc.watchedMovies < MaxCount
  /\ isLoading' = TRUE
  /\ save' = [IdleSave EXCEPT !.pc = "setDoc", !.movie = open,
                              !.userStatus = userStatus,
                              !.tempRating = tempRating,
                              !.finalStatus = FinalStatus(tempRating, userStatus)]
  /\ lastSave' = NoLastSave
  /\ UNCHANGED <<movieDocs, userDoc, open, userStatus, tempRating, hasChanges,
                 loads>>
  /\ UNCHANGED notMovieVars

\* catch + finally of handleSave
SaveFailed ==
  /\ save' = IdleSave
  /\ isLoading' = FALSE

\* await setDoc(userMovieRef, {rating: tempRating || null, status}, merge)
SetDocDone ==
  /\ save.pc = "setDoc"
  /\ \E ok \in BOOLEAN :
       IF ok
       THEN /\ movieDocs' = [movieDocs EXCEPT ![save.movie] =
                               [exists |-> TRUE, rating |-> save.tempRating,
                                status |-> save.finalStatus]]
            /\ save' = [save EXCEPT !.pc = "getDoc",
                                    !.prevStored = movieDocs[save.movie].status]
            /\ UNCHANGED isLoading
       ELSE /\ SaveFailed
            /\ UNCHANGED movieDocs
  /\ UNCHANGED <<userDoc, open, userStatus, tempRating, hasChanges, loads,
                 lastSave>>
  /\ UNCHANGED notMovieVars

\* the count adjustment of handleSave: <<watchedCount, watchlistCount>>
AdjustCounts(finalStatus, status, w, l) ==
  IF finalStatus = "watched" /\ status # "watched"
  THEN <<w + 1, IF status = "watchlist" THEN l - 1 ELSE l>>
  ELSE IF finalStatus = "watchlist" /\ status # "watchlist"
  THEN <<IF status = "watched" THEN w - 1 ELSE w, l + 1>>
  ELSE IF finalStatus = "none"
  THEN <<IF status = "watched" THEN w - 1 ELSE w,
         IF status = "watchlist" THEN l - 1 ELSE l>>
  ELSE <<w, l>>

\* setMovie(updatedMovie); setHasChanges(false); Alert 'Saved!'; finally
SaveSucceeded ==
  /\ userStatus' = save.finalStatus
  /\ hasChanges' = FALSE
  /\ isLoading' = FALSE

\* await getDoc(userRef): the counters are read (userData.watchedMovies || 0)
\* and adjusted; without a profile document the save is complete.
GetDocDone ==
  /\ save.pc = "getDoc"
  /\ \E ok \in BOOLEAN :
       IF ~ok
       THEN /\ SaveFailed
            /\ UNCHANGED <<userStatus, hasChanges, lastSave>>
       ELSE IF userDoc.exists
       THEN LET w == IF userDoc.hasCounters THEN userDoc.watchedMovies ELSE 0
                l == IF userDoc.hasCounters THEN userDoc.watchlistMovies ELSE 0
                c == AdjustCounts(save.finalStatus, save.userStatus, w, l)
            IN /\ save' = [save EXCEPT !.pc = "updateDoc", !.w0 = w, !.l0 = l,
                                       !.watchedCount = c[1],
                                       !.watchlistCount = c[2]]
               /\ UNCHANGED <<userStatus, hasChanges, isLoading, lastSave>>
       ELSE /\ SaveSucceeded
            /\ save' = [save EXCEPT !.pc = "savedAlert"]
            /\ UNCHANGED lastSave
  /\ UNCHANGED <<movieDocs, userDoc, open, tempRating, loads>>
  /\ UNCHANGED notMovieVars

ClampNoFloor(count) == count

\* Math.max(0, count) of the counter write
Clamp(count) == IF count > 0 THEN count ELSE 0

\* await updateDoc(userRef, {watchedMovies, watchlistMovies})
UpdateDocDone ==
  /\ save.pc = "updateDoc"
  /\ \E ok \in BOOLEAN :
       IF ok
       THEN /\ userDoc' = [userDoc EXCEPT !.hasCounters = TRUE,
                             !.watchedMovies = Clamp(save.watchedCount),
                             !.watchlistMovies = Clamp(save.watchlistCount)]
            /\ SaveSucceeded
            /\ save' = [save EXCEPT !.pc = "savedAlert"]
            /\ lastSave' = [valid |-> TRUE, prev |-> save.prevStored,
                            new |-> save.finalStatus,
                            w0 |-> save.w0, l0 |-> save.l0,
                            w1 |-> Clamp(save.watchedCount),
                            l1 |-> Clamp(save.watchlistCount)]
       ELSE /\ SaveFailed
            /\ UNCHANGED <<userDoc, userStatus, hasChanges, lastSave>>
  /\ UNCHANGED <<movieDocs, open, tempRating, loads>>
  /\ UNCHANGED notMovieVars

\* navigation.goBack(): the screen is unmounted and its state is gone
Unmount ==
  /\ open' = NoMovie
  /\ userStatus' = "none"
  /\ tempRating' = 0
  /\ hasChanges' = FALSE
  /\ isLoading' = FALSE
  /\ loads' = {}

\* the OK button of the 'Saved!' alert: navigation.goBack()
AckSaved ==
  /\ save.pc = "savedAlert"
  /\ save' = IdleSave
  /\ Unmount
  /\ UNCHANGED <<movieDocs, userDoc, lastSave>>
  /\ UNCHANGED notMovieVars

\* handleClose (and 'Leave' when there are unsaved changes), tapped while no
\* save is running
HandleClose ==
  /\ open # NoMovie
  /\ save.pc = "idle"
  /\ Unmount
  /\ UNCHANGED <<movieDocs, userDoc, save, lastSave>>
  /\ UNCHANGED notMovieVars

MovieNext ==
  \/ \E m \in Movies : OpenMovie(m)
  \/ LoadMovieDetails
  \/ LoadUserData
  \/ \E r \in Stars : HandleRatingChange(r)
  \/ \E s \in {"watched", "watchlist"} : HandleStatusChange(s)
  \/ HandleSave
  \/ SetDocDone
  \/ GetDocDone
  \/ UpdateDocDone
  \/ AckSaved
  \/ HandleClose

\* ------------------------------------------------------------------------
\* The search effect (useEffect on [searchQuery])
\* ------------------------------------------------------------------------
RECURSIVE TrimStart(_)
TrimStart(q) == IF q # <<>> /\ Head(q) = " " THEN TrimStart(Tail(q)) ELSE q

RECURSIVE TrimEnd(_)
TrimEnd(q) ==
  IF q # <<>> /\ q[Len(q)] = " " THEN TrimEnd(SubSeq(q, 1, Len(q) - 1)) ELSE q

\* String.prototype.trim
Trim(q) == TrimEnd(TrimStart(q))

MinQueryLength == 2

NoTimer == [armed |-> FALSE, query |-> <<>>]
NoResults == [query |-> <<>>, found |-> FALSE]

\* the first render: searchQuery is '' and the effect arms its first timeout
SearchInit ==
  /\ searchQuery = <<>>
  /\ searchResults = NoResults
  /\ searching = FALSE
  /\ timer = [armed |-> TRUE, query |-> <<>>]
  /\ inflight = {}
  /\ dispatched = 0

SearchIdle ==
  /\ searchQuery = <<>>
  /\ searchResults = NoResults
  /\ searching = FALSE
  /\ timer = NoTimer
  /\ inflight = {}
  /\ dispatched = 0

SetSearchQueryKeepsTimer(q) ==
  /\ q # searchQuery
  /\ searchQuery' = q
  /\ timer' = IF timer.armed THEN timer ELSE [armed |-> TRUE, query |-> q]
  /\ UNCHANGED <<searchResults, searching, inflight, dispatched>>
  /\ UNCHANGED notSearchVars

\* setSearchQuery(q) with a new value: the effect's cleanup clears the pending
\* timeout and the effect arms a new one for q
SetSearchQuery(q) ==
  /\ q # searchQuery
  /\ searchQuery' = q
  /\ timer' = [armed |-> TRUE, query |-> q]
  /\ UNCHANGED <<searchResults, searching, inflight, dispatched>>
  /\ UNCHANGED notSearchVars

\* the timeout fires and search() runs up to its await: a short query empties
\* the results without a call, any other dispatches searchMovies(trimmed)
TimerFires ==
  /\ timer.armed
  /\ timer' = NoTimer
  /\ IF Len(Trim(timer.query)) < MinQueryLength
     THEN /\ searchResults' = [query |-> Trim(timer.query), found |-> FALSE]
          /\ UNCHANGED <<searching, inflight, dispatched>>
     ELSE /\ dispatched < MaxSearches
          /\ searching' = TRUE
          /\ dispatched' = dispatched + 1
          /\ inflight' = inflight \cup {[n |-> dispatched + 1,
                                         query |-> Trim(timer.query)]}
          /\ UNCHANGED searchResults
  /\ UNCHANGED searchQuery
  /\ UNCHANGED notSearchVars

\* what search() does with the resolved call: setSearchResults(results)
ApplyResponse(s, found) == [query |-> s.query, found |-> found]

\* searchMovies resolves (with [] when the catalog call failed or found
\* nothing); search() continues: setSearchResults, then setSearching(false)
SearchResolves(s) ==
  /\ s \in inflight
  /\ inflight' = inflight \ {s}
  /\ \E found \in BOOLEAN : searchResults' = ApplyResponse(s, found)
  /\ searching' = FALSE
  /\ UNCHANGED <<searchQuery, timer, dispatched>>
  /\ UNCHANGED notSearchVars

SearchNext ==
  \/ \E q \in Queries : SetSearchQuery(q)
  \/ TimerFires
  \/ \E s \in inflight : SearchResolves(s)

\* ------------------------------------------------------------------------
\* Profile document, local cache, session start (App.tsx, FirestoreService)
\* ------------------------------------------------------------------------
\* the search results the user picks from, in this order
Catalog == << [id |-> 1, title |-> "dune", year |-> 2021],
              [id |-> 2, title |-> "her", year |-> 2013],
              [id |-> 3, title |-> "arrival", year |-> 2016] >>
\* the star the user taps in the wizard
WizardStars == {4}

GenreNames == <<"action", "horror", "romance", "comedy", "sci-fi", "drama">>

\* SAMPLE_GENRE_EXAMPLES, the movies of a genre taken as one value
SampleGenreExamples ==
  [i \in DOMAIN GenreNames |->
     [genre |-> GenreNames[i], movies |-> "sample", rating |-> 0]]

NoProfile == [exists |-> FALSE, hasCompletedOnboarding |-> FALSE,
              favorites |-> <<>>, recentWatches |-> <<>>, genreRatings |-> <<>>,
              lastUpdated |-> FALSE]

\* FirestoreService.createUserProfile
CreatedProfile == [exists |-> TRUE, hasCompletedOnboarding |-> FALSE,
                   favorites |-> <<>>, recentWatches |-> <<>>,
                   genreRatings |-> <<>>, lastUpdated |-> TRUE]

NoSnapshot == [present |-> FALSE]
NullRemote == [null |-> TRUE]
NoPick == [id |-> 0, title |-> "", year |-> 0]
NoEntry == [via |-> "none", remoteDone |-> FALSE, readFailed |-> FALSE]
NoCommit == [valid |-> FALSE]

\* the state of a freshly mounted (or unmounted) OnboardingScreen
WizardReset ==
  /\ step' = "favorites"
  /\ favorites' = <<>>
  /\ recentWatches' = <<>>
  /\ genreRatings' = SampleGenreExamples
  /\ movieToRate' = NoPick
  /\ modalRating' = 0

\* <OnboardingScreen /> is rendered: checkExisting and loadGenreExamples start
MountOnboarding ==
  /\ checking' = "getRemote"
  /\ checkRemote' = NullRemote
  /\ loadingGenres' = TRUE
  /\ WizardReset

\* setCurrentScreen('onboarding'): the screen is mounted unless it already is;
\* checkExisting returns at once when there is no current user
ShowOnboarding ==
  /\ currentScreen' = "onboarding"
  /\ IF currentScreen = "onboarding"
     THEN UNCHANGED <<checking, checkRemote, loadingGenres, wizardVars>>
     ELSE /\ checking' = IF authUser = "none" THEN "done" ELSE "getRemote"
          /\ checkRemote' = NullRemote
          /\ loadingGenres' = TRUE
          /\ WizardReset

\* another screen is rendered: the component state is gone
UnmountOnboarding ==
  /\ checking' = "off"
  /\ checkRemote' = NullRemote
  /\ loadingGenres' = FALSE
  /\ WizardReset

OnbInit ==
  /\ profile \in {NoProfile, CreatedProfile}
  /\ localHas = "none"
  /\ localPref = NoSnapshot
  /\ currentScreen = "loading"
  /\ listener = "checkStatus"
  /\ sessions = 1
  /\ checking = "off"
  /\ checkRemote = NullRemote
  /\ loadingGenres = FALSE
  /\ step = "favorites"
  /\ favorites = <<>>
  /\ recentWatches = <<>>
  /\ genreRatings = SampleGenreExamples
  /\ movieToRate = NoPick
  /\ modalRating = 0
  /\ commits = {}
  /\ started = 0
  /\ entry = NoEntry
  /\ lastCommit = NoCommit

OnbIdle ==
  /\ profile = NoProfile
  /\ localHas = "none"
  /\ localPref = NoSnapshot
  /\ currentScreen = "loading"
  /\ listener = "idle"
  /\ sessions = 0
  /\ checking = "off"
  /\ checkRemote = NullRemote
  /\ loadingGenres = FALSE
  /\ step = "favorites"
  /\ favorites = <<>>
  /\ recentWatches = <<>>
  /\ genreRatings = SampleGenreExamples
  /\ movieToRate = NoPick
  /\ modalRating = 0
  /\ commits = {}
  /\ started = 0
  /\ entry = NoEntry
  /\ lastCommit = NoCommit

\* The app process is started again (the signed-in, verified user is kept by
\* the authentication service): App mounts with currentScreen 'loading' and
\* the auth listener's callback runs; what the old process was doing is gone.
AppStart ==
  /\ sessions < MaxSessions
  /\ sessions' = sessions + 1
  /\ currentScreen' = "loading"
  /\ listener' = "checkStatus"
  /\ UnmountOnboarding
  /\ commits' = {}
  /\ entry' = NoEntry
  /\ UNCHANGED <<storeVars, started, lastCommit>>
  /\ UNCHANGED notOnbVars

\* FirestoreService.hasCompletedOnboarding: getUserProfile's error is caught
\* and answered with false
HasCompletedOnboarding(ok) ==
  IF ok THEN profile.exists /\ profile.hasCompletedOnboarding ELSE FALSE

\* the callback after await FirestoreService.hasCompletedOnboarding(uid)
ListenerStatus ==
  /\ listener = "checkStatus"
  /\ \E ok \in BOOLEAN :
       IF HasCompletedOnboarding(ok)
       THEN /\ currentScreen' = "main"
            /\ listener' = "idle"
            /\ entry' = [via |-> "status", remoteDone |-> TRUE,
                         readFailed |-> FALSE]
            /\ UnmountOnboarding
       ELSE /\ listener' = "readLocal"
            /\ entry' = [NoEntry EXCEPT !.readFailed = ~ok]
            /\ UNCHANGED <<currentScreen, checking, checkRemote, loadingGenres,
                           wizardVars>>
  /\ UNCHANGED <<storeVars, sessions, commits, started, lastCommit>>
  /\ UNCHANGED notOnbVars

\* the callback after await AsyncStorage.getItem('@hasOnboarded'): with or
\* without local data (and on a read error) the screen becomes 'onboarding'
ListenerLocal ==
  /\ listener = "readLocal"
  /\ listener' = "idle"
  /\ ShowOnboarding
  /\ UNCHANGED <<storeVars, sessions, commits, started, entry, lastCommit>>
  /\ UNCHANGED notOnbVars

\* FirestoreService.getOnboardingData: null for a missing document and for a
\* failed read; completedAt is lastUpdated when the completion flag is set
GetOnboardingData(ok) ==
  IF ok /\ profile.exists
  THEN [null |-> FALSE,
        favorites |-> profile.favorites,
        recentWatches |-> profile.recentWatches,
        genreRatings |-> profile.genreRatings,
        completedAt |-> profile.hasCompletedOnboarding /\ profile.lastUpdated]
  ELSE NullRemote

CompletedAtIgnored(remote) == FALSE

\* remote?.completedAt
CompletedAt(remote) == IF remote.null THEN FALSE ELSE remote.completedAt

\* onComplete(): App.handleOnboardingComplete sets the screen to 'main'
OnComplete(via, done, failed) ==
  /\ currentScreen' = "main"
  /\ UnmountOnboarding
  /\ entry' = [via |-> via, remoteDone |-> done, readFailed |-> failed]

\* checkExisting after await getOnboardingData(uid)
CheckGetRemote ==
  /\ currentScreen = "onboarding"
  /\ checking = "getRemote"
  /\ \E ok \in BOOLEAN :
       /\ checkRemote' = GetOnboardingData(ok)
       /\ checking' = IF CompletedAt(GetOnboardingData(ok)) THEN "setHas"
                      ELSE "getLocal"
       /\ entry' = [entry EXCEPT !.readFailed = ~ok]
  /\ UNCHANGED <<storeVars, appVars, loadingGenres, wizardVars, commits, started,
                 lastCommit>>
  /\ UNCHANGED notOnbVars

\* checkExisting after await AsyncStorage.setItem(HAS, 'true'); a failed write
\* lands in the catch, and finally shows the wizard
CheckSetHas ==
  /\ currentScreen = "onboarding"
  /\ checking = "setHas"
  /\ \E ok \in BOOLEAN :
       IF ok THEN localHas' = "true" /\ checking' = "setPref"
       ELSE checking' = "done" /\ UNCHANGED localHas
  /\ UNCHANGED <<profile, localPref, appVars, checkRemote, loadingGenres,
                 wizardVars, commits, started, entry, lastCommit>>
  /\ UNCHANGED notOnbVars

\* JSON.stringify(remote), kept as the value it parses back to
RemoteSnapshot(remote) ==
  [present |-> TRUE, favorites |-> remote.favorites,
   recentWatches |-> remote.recentWatches, genreRatings |-> remote.genreRatings,
   completedAt |-> "lastUpdated"]

\* checkExisting after await AsyncStorage.setItem(PREF, ...): onComplete()
CheckSetPref ==
  /\ currentScreen = "onboarding"
  /\ checking = "setPref"
  /\ \E ok \in BOOLEAN :
       IF ok
       THEN /\ localPref' = RemoteSnapshot(checkRemote)
            /\ OnComplete("remote", TRUE, FALSE)
       ELSE /\ checking' = "done"
            /\ UNCHANGED <<localPref, currentScreen, checkRemote, loadingGenres,
                           wizardVars, entry>>
  /\ UNCHANGED <<profile, localHas, listener, sessions, commits, started,
                 lastCommit>>
  /\ UNCHANGED notOnbVars

\* what checkExisting does with the local flag it read
LocalFlagCompletes(localValue) == localValue = "true"

\* checkExisting after await AsyncStorage.getItem(HAS)
CheckGetLocal ==
  /\ currentScreen = "onboarding"
  /\ checking = "getLocal"
  /\ IF LocalFlagCompletes(localHas)
     THEN OnComplete("local",
                     profile.exists /\ profile.hasCompletedOnboarding,
                     entry.readFailed)
     ELSE /\ checking' = "done"
          /\ UNCHANGED <<currentScreen, checkRemote, loadingGenres, wizardVars,
                         entry>>
  /\ UNCHANGED <<storeVars, listener, sessions, commits, started, lastCommit>>
  /\ UNCHANGED notOnbVars

\* FirestoreService.resetOnboardingStatus(uid): updateDoc fails without a
\* document
ResetOnboardingStatus ==
  /\ profile.exists
  /\ profile.hasCompletedOnboarding
  /\ profile' = CreatedProfile
  /\ lastCommit' = NoCommit
  /\ UNCHANGED <<localHas, localPref, appVars, checking, checkRemote,
                 loadingGenres, wizardVars, commits, started, entry>>
  /\ UNCHANGED notOnbVars

\* ------------------------------------------------------------------------
\* OnboardingScreen: the wizard and its commit
\* ------------------------------------------------------------------------
MaxFavorites == 4
MaxRecentWatches == 5
MinFavorites == 2
MinRecentWatches == 3
MinRatedGenres == 4

\* the entries addFavorite and confirmAddRecentWatch append
FavoriteOf(movie) == [id |-> movie.id, title |-> movie.title, year |-> movie.year]
RecentOf(movie, rating) ==
  [id |-> movie.id, title |-> movie.title, year |-> movie.year,
   rating |-> rating]

\* an Alert of handleNext is on the screen: 'Save error', or 'No user found'
AlertShown == \E c \in commits : c.pc \in {"failed", "nouser"}

\* the wizard is on the screen and takes taps
WizardVisible ==
  /\ currentScreen = "onboarding"
  /\ checking = "done"
  /\ ~AlertShown

\* the search result the user taps next: the catalog entry after those taken
NextPick(list) ==
  {Catalog[i] : i \in {Len(list) + 1} \cap DOMAIN Catalog}

\* setSearchQuery(''): the search effect runs again when the query changed
ClearSearchQuery ==
  /\ searchQuery' = <<>>
  /\ timer' = IF searchQuery # <<>> THEN [armed |-> TRUE, query |-> <<>>]
              ELSE timer
  /\ UNCHANGED <<searchResults, searching, inflight, dispatched>>

\* loadGenreExamples resolves: the samples, with the popular movies of a genre
\* when three were found, replace genreRatings; a failure keeps the samples
LoadGenreExamples ==
  /\ currentScreen = "onboarding"
  /\ loadingGenres
  /\ loadingGenres' = FALSE
  /\ \E ok \in BOOLEAN :
       genreRatings' = IF ok
                       THEN [i \in DOMAIN SampleGenreExamples |->
                               [SampleGenreExamples[i] EXCEPT !.movies = "popular"]]
                       ELSE genreRatings
  /\ UNCHANGED <<storeVars, appVars, checking, checkRemote, step, favorites,
                 recentWatches, movieToRate, modalRating, commits, started,
                 entry, lastCommit>>
  /\ UNCHANGED notOnbVars

AddFavoriteNoLimit(movie) ==
  /\ WizardVisible
  /\ step = "favorites"
  /\ IF \E i \in DOMAIN favorites : favorites[i].title = movie.title
     THEN UNCHANGED <<favorites, searchVars>>
     ELSE /\ favorites' = Append(favorites, FavoriteOf(movie))
          /\ ClearSearchQuery
  /\ UNCHANGED <<storeVars, appVars, checking, checkRemote, loadingGenres, step,
                 recentWatches, genreRatings, movieToRate, modalRating, commits,
                 started, entry, lastCommit>>
  /\ UNCHANGED notOnbSearchVars

\* addFavorite(movie)
AddFavorite(movie) ==
  /\ WizardVisible
  /\ step = "favorites"
  /\ IF \/ Len(favorites) >= MaxFavorites
        \/ \E i \in DOMAIN favorites : favorites[i].title = movie.title
     THEN UNCHANGED <<favorites, searchVars>>
     ELSE /\ favorites' = Append(favorites, [id |-> movie.id,
                                             title |-> movie.title,
                                             year |-> movie.year])
          /\ ClearSearchQuery
  /\ UNCHANGED <<storeVars, appVars, checking, checkRemote, loadingGenres, step,
                 recentWatches, genreRatings, movieToRate, modalRating, commits,
                 started, entry, lastCommit>>
  /\ UNCHANGED notOnbSearchVars

AddRecentWatchNoLimit(movie) ==
  /\ WizardVisible
  /\ step = "recent"
  /\ movieToRate = NoPick
  /\ IF \E i \in DOMAIN recentWatches : recentWatches[i].title = movie.title
     THEN UNCHANGED <<movieToRate, modalRating>>
     ELSE /\ movieToRate' = movie
          /\ modalRating' = 0
  /\ UNCHANGED <<storeVars, appVars, checking, checkRemote, loadingGenres, step,
                 favorites, recentWatches, genreRatings, commits, started, entry,
                 lastCommit>>
  /\ UNCHANGED notOnbVars

\* addRecentWatch(movie): opens the rating modal
AddRecentWatch(movie) ==
  /\ WizardVisible
  /\ step = "recent"
  /\ movieToRate = NoPick
  /\ IF \/ Len(recentWatches) >= MaxRecentWatches
        \/ \E i \in DOMAIN recentWatches : recentWatches[i].title = movie.title
     THEN UNCHANGED <<movieToRate, modalRating>>
     ELSE /\ movieToRate' = movie
          /\ modalRating' = 0
  /\ UNCHANGED <<storeVars, appVars, checking, checkRemote, loadingGenres, step,
                 favorites, recentWatches, genreRatings, commits, started, entry,
                 lastCommit>>
  /\ UNCHANGED notOnbVars

\* a star of the rating modal: setTempRating(star)
SetTempRating(star) ==
  /\ WizardVisible
  /\ movieToRate # NoPick
  /\ modalRating' = star
  /\ UNCHANGED <<storeVars, appVars, checking, checkRemote, loadingGenres, step,
                 favorites, recentWatches, genreRatings, movieToRate, commits,
                 started, entry, lastCommit>>
  /\ UNCHANGED notOnbVars

ConfirmWithoutRating ==
  /\ WizardVisible
  /\ movieToRate # NoPick
  /\ recentWatches' = Append(recentWatches, RecentOf(movieToRate, modalRating))
  /\ movieToRate' = NoPick
  /\ modalRating' = 0
  /\ ClearSearchQuery
  /\ UNCHANGED <<storeVars, appVars, checking, checkRemote, loadingGenres, step,
                 favorites, genreRatings, commits, started, entry, lastCommit>>
  /\ UNCHANGED notOnbSearchVars

\* confirmAddRecentWatch
ConfirmAddRecentWatch ==
  /\ WizardVisible
  /\ movieToRate # NoPick
  /\ IF modalRating = 0
     THEN UNCHANGED <<recentWatches, movieToRate, modalRating, searchVars>>
     ELSE /\ recentWatches' = Append(recentWatches,
                                     [id |-> movieToRate.id,
                                      title |-> movieToRate.title,
                                      year |-> movieToRate.year,
                                      rating |-> modalRating])
          /\ movieToRate' = NoPick
          /\ modalRating' = 0
          /\ ClearSearchQuery
  /\ UNCHANGED <<storeVars, appVars, checking, checkRemote, loadingGenres, step,
                 favorites, genreRatings, commits, started, entry, lastCommit>>
  /\ UNCHANGED notOnbSearchVars

CancelKeepsRating ==
  /\ WizardVisible
  /\ movieToRate # NoPick
  /\ movieToRate' = NoPick
  /\ UNCHANGED <<storeVars, appVars, checking, checkRemote, loadingGenres, step,
                 favorites, recentWatches, genreRatings, modalRating, commits,
                 started, entry, lastCommit>>
  /\ UNCHANGED notOnbVars

\* cancelAddRecentWatch
CancelAddRecentWatch ==
  /\ WizardVisible
  /\ movieToRate # NoPick
  /\ movieToRate' = NoPick
  /\ modalRating' = 0
  /\ UNCHANGED <<storeVars, appVars, checking, checkRemote, loadingGenres, step,
                 favorites, recentWatches, genreRatings, commits, started, entry,
                 lastCommit>>
  /\ UNCHANGED notOnbVars

\* the genre the user rates next: the first one without a rating
NextGenre == {i \in DOMAIN genreRatings :
                /\ genreRatings[i].rating = 0
                /\ \A j \in 1..(i - 1) : genreRatings[j].rating > 0}

\* rateGenre(idx, rating); the star rows are shown once the examples loaded
RateGenre(idx, rating) ==
  /\ WizardVisible
  /\ step = "genres"
  /\ ~loadingGenres
  /\ genreRatings' = [genreRatings EXCEPT ![idx].rating = rating]
  /\ UNCHANGED <<storeVars, appVars, checking, checkRemote, loadingGenres, step,
                 favorites, recentWatches, movieToRate, modalRating, commits,
                 started, entry, lastCommit>>
  /\ UNCHANGED notOnbVars

CanProceedIgnoresRatings ==
  IF step = "favorites" THEN Len(favorites) >= MinFavorites
  ELSE IF step = "recent" THEN Len(recentWatches) >= MinRecentWatches
  ELSE IF step = "genres" THEN Len(genreRatings) >= MinRatedGenres
  ELSE FALSE

\* canProceedFromStep
CanProceedFromStep ==
  IF step = "favorites" THEN Len(favorites) >= MinFavorites
  ELSE IF step = "recent"
  THEN /\ Len(recentWatches) >= MinRecentWatches
       /\ \A i \in DOMAIN recentWatches : recentWatches[i].rating > 0
  ELSE IF step = "genres"
  THEN Cardinality({i \in DOMAIN genreRatings : genreRatings[i].rating > 0})
         >= MinRatedGenres
  ELSE FALSE

\* a final-step handleNext that has reached its first await, with the state of
\* the render it was tapped in
NewCommit ==
  [n |-> started + 1, pc |-> "updateDoc", favorites |-> favorites,
   recentWatches |-> recentWatches, genreRatings |-> genreRatings,
   remoteOK |-> FALSE, localWrites |-> 0]

HandleNextUngated ==
  /\ WizardVisible
  /\ movieToRate = NoPick
  /\ IF step = "favorites"
     THEN step' = "recent" /\ UNCHANGED <<commits, started>>
     ELSE IF step = "recent"
     THEN step' = "genres" /\ UNCHANGED <<commits, started>>
     ELSE /\ started < MaxCommits
          /\ commits' = commits \cup
                          {IF authUser = "none"
                           THEN [NewCommit EXCEPT !.pc = "nouser"]
                           ELSE NewCommit}
          /\ started' = started + 1
          /\ UNCHANGED step
  /\ UNCHANGED <<storeVars, appVars, checking, checkRemote, loadingGenres,
                 favorites, recentWatches, genreRatings, movieToRate, modalRating,
                 entry, lastCommit>>
  /\ UNCHANGED notOnbVars

\* handleNext, tapped on the next button (rendered when canProceedFromStep);
\* with no current user the last step ends in the 'No user found' alert
HandleNext ==
  /\ WizardVisible
  /\ movieToRate = NoPick
  /\ CanProceedFromStep
  /\ IF step = "favorites"
     THEN step' = "recent" /\ UNCHANGED <<commits, started>>
     ELSE IF step = "recent"
     THEN step' = "genres" /\ UNCHANGED <<commits, started>>
     ELSE /\ started < MaxCommits
          /\ commits' = commits \cup
                          {IF authUser = "none"
                           THEN [NewCommit EXCEPT !.pc = "nouser"]
                           ELSE NewCommit}
          /\ started' = started + 1
          /\ UNCHANGED step
  /\ UNCHANGED <<storeVars, appVars, checking, checkRemote, loadingGenres,
                 favorites, recentWatches, genreRatings, movieToRate, modalRating,
                 entry, lastCommit>>
  /\ UNCHANGED notOnbVars

\* genreRatings.map((g) => ({ genre: g.genre, rating: g.rating }))
ProjectGenres(gr) ==
  [i \in DOMAIN gr |-> [genre |-> gr[i].genre, rating |-> gr[i].rating]]

UpdateWithoutFlag(doc, favs, recents, genres) ==
  [doc EXCEPT !.favorites = favs, !.recentWatches = recents,
              !.genreRatings = genres, !.lastUpdated = TRUE]

\* FirestoreService.updateOnboardingData: the document after updateDoc
UpdateOnboardingData(doc, favs, recents, genres) ==
  [doc EXCEPT !.favorites = favs, !.recentWatches = recents,
              !.genreRatings = genres, !.hasCompletedOnboarding = TRUE,
              !.lastUpdated = TRUE]

AfterUpdateDocSwallows(c, ok) == [c EXCEPT !.pc = "setHas", !.remoteOK = ok]

\* handleNext behind await updateOnboardingData: on with the local writes, or
\* into the catch
AfterUpdateDoc(c, ok) ==
  IF ok THEN [c EXCEPT !.pc = "setHas", !.remoteOK = TRUE]
  ELSE [c EXCEPT !.pc = "failed"]

CommitFailureResets == WizardReset

\* the catch of handleNext: console.error and the 'Save error' alert
OnCommitFailure == UNCHANGED wizardVars

\* await updateOnboardingData(...) of a commit; updateDoc fails when the
\* document is missing, and the writes of one client are sent in the order
\* they were made
CommitUpdateDoc(c) ==
  /\ c \in commits
  /\ c.pc = "updateDoc"
  /\ \A d \in commits : d.pc = "updateDoc" => d.n >= c.n
  /\ \E net \in BOOLEAN :
       LET ok == net /\ profile.exists
       IN /\ commits' = (commits \ {c}) \cup {AfterUpdateDoc(c, ok)}
          /\ IF ok
             THEN /\ profile' = UpdateOnboardingData(profile, c.favorites,
                                  c.recentWatches, ProjectGenres(c.genreRatings))
                  /\ lastCommit' = [valid |-> TRUE, favorites |-> c.favorites,
                                    recentWatches |-> c.recentWatches,
                                    genreRatings |-> ProjectGenres(c.genreRatings)]
                  /\ UNCHANGED wizardVars
             ELSE /\ OnCommitFailure
                  /\ UNCHANGED <<profile, lastCommit>>
  /\ UNCHANGED <<localHas, localPref, appVars, checking, checkRemote,
                 loadingGenres, started, entry>>
  /\ UNCHANGED notOnbVars

\* await AsyncStorage.setItem(HAS, 'true') of a commit
CommitSetHas(c) ==
  /\ c \in commits
  /\ c.pc = "setHas"
  /\ \E ok \in BOOLEAN :
       IF ok
       THEN /\ localHas' = "true"
            /\ commits' = (commits \ {c}) \cup
                            {[c EXCEPT !.pc = "setPref", !.localWrites = 1]}
            /\ UNCHANGED wizardVars
       ELSE /\ commits' = (commits \ {c}) \cup {[c EXCEPT !.pc = "failed"]}
            /\ OnCommitFailure
            /\ UNCHANGED localHas
  /\ UNCHANGED <<profile, localPref, appVars, checking, checkRemote,
                 loadingGenres, started, entry, lastCommit>>
  /\ UNCHANGED notOnbVars

\* JSON.stringify({favorites, recentWatches, genreRatings, completedAt})
CommitSnapshot(c) ==
  [present |-> TRUE, favorites |-> c.favorites,
   recentWatches |-> c.recentWatches, genreRatings |-> c.genreRatings,
   completedAt |-> "now"]

\* await AsyncStorage.setItem(PREF, ...) of a commit, then onComplete()
CommitSetPref(c) ==
  /\ c \in commits
  /\ c.pc = "setPref"
  /\ \E ok \in BOOLEAN :
       IF ok
       THEN /\ localPref' = CommitSnapshot(c)
            /\ commits' = commits \ {c}
            /\ OnComplete("commit", c.remoteOK, FALSE)
       ELSE /\ commits' = (commits \ {c}) \cup {[c EXCEPT !.pc = "failed"]}
            /\ OnCommitFailure
            /\ UNCHANGED <<localPref, currentScreen, checking, checkRemote,
                           loadingGenres, entry>>
  /\ UNCHANGED <<profile, localHas, listener, sessions, started, lastCommit>>
  /\ UNCHANGED notOnbVars

\* the alert of a failed commit is dismissed
DismissAlert(c) ==
  /\ c \in commits
  /\ c.pc \in {"failed", "nouser"}
  /\ commits' = commits \ {c}
  /\ UNCHANGED <<storeVars, appVars, checking, checkRemote, loadingGenres,
                 wizardVars, started, entry, lastCommit>>
  /\ UNCHANGED notOnbVars

OnbNext ==
  \/ AppStart
  \/ ListenerStatus
  \/ ListenerLocal
  \/ CheckGetRemote
  \/ CheckSetHas
  \/ CheckSetPref
  \/ CheckGetLocal
  \/ ResetOnboardingStatus
  \/ LoadGenreExamples
  \/ \E m \in NextPick(favorites) : AddFavorite(m)
  \/ \E m \in NextPick(recentWatches) : AddRecentWatch(m)
  \/ \E r \in WizardStars : SetTempRating(r)
  \/ ConfirmAddRecentWatch
  \/ CancelAddRecentWatch
  \/ \E i \in NextGenre : \E r \in WizardStars : RateGenre(i, r)
  \/ HandleNext
  \/ \E c \in commits : CommitUpdateDoc(c)
  \/ \E c \in commits : CommitSetHas(c)
  \/ \E c \in commits : CommitSetPref(c)
  \/ \E c \in commits : DismissAlert(c)

\* ------------------------------------------------------------------------
\* OnboardingScreen: the gate of the next button, over given wizard states
\* ------------------------------------------------------------------------
GateMaxLen == 4          \* the longest favorites / recent watches list given
\* search results beyond Catalog; the last has the title of the first
SearchHits == Catalog \o << [id |-> 4, title |-> "alien", year |-> 1979],
                            [id |-> 5, title |-> "heat", year |-> 1995],
                            [id |-> 6, title |-> "jaws", year |-> 1975],
                            [id |-> 7, title |-> "dune", year |-> 1984] >>

NoRender == [rendered |-> FALSE]
GateIdle == canProceed = NoRender

GateFavorites ==
  {[i \in 1..n |-> FavoriteOf(SearchHits[i])] : n \in 0..GateMaxLen}
GateRecentWatches ==
  UNION {{[i \in 1..n |-> RecentOf(SearchHits[i], rs[i])] :
            rs \in [1..n -> {0} \cup WizardStars]} : n \in 0..GateMaxLen}
GateGenreRatings ==
  {[i \in DOMAIN SampleGenreExamples |->
      [SampleGenreExamples[i] EXCEPT !.rating = IF i \in rated THEN 3 ELSE 0]] :
     rated \in SUBSET DOMAIN SampleGenreExamples}

\* a mounted wizard whose checkExisting and loadGenreExamples are over
WizardOnScreen ==
  /\ profile = CreatedProfile
  /\ localHas = "none"
  /\ localPref = NoSnapshot
  /\ currentScreen = "onboarding"
  /\ listener = "idle"
  /\ sessions = 1
  /\ checking = "done"
  /\ checkRemote = NullRemote
  /\ loadingGenres = FALSE
  /\ movieToRate = NoPick
  /\ modalRating = 0
  /\ commits = {}
  /\ started = 0
  /\ entry = NoEntry
  /\ lastCommit = NoCommit

GateInit ==
  /\ WizardOnScreen
  /\ step \in {"favorites", "recent", "genres"}
  /\ favorites \in GateFavorites
  /\ recentWatches \in GateRecentWatches
  /\ genreRatings \in GateGenreRatings
  /\ canProceed = NoRender

\* the bottom bar is rendered: {canProceedFromStep() && next button}
RenderBottomActions ==
  /\ canProceed = NoRender
  /\ canProceed' = [rendered |-> TRUE, shown |-> CanProceedFromStep]
  /\ UNCHANGED <<movieVars, searchVars, onbVars, editVars, saveVars, authVars,
                 chatVars>>

GateNext == RenderBottomActions

\* ------------------------------------------------------------------------
\* OnboardingScreen: the handlers of the three steps, with remove and re-rate
\* ------------------------------------------------------------------------
IdsOf(list) == {list[i].id : i \in DOMAIN list}
Without(list, id) == SelectSeq(list, LAMBDA x : x.id # id)

\* removeFavorite(id), the x of a selected favorite
RemoveFavorite(id) ==
  /\ WizardVisible
  /\ step = "favorites"
  /\ id \in IdsOf(favorites)
  /\ favorites' = Without(favorites, id)
  /\ UNCHANGED <<storeVars, appVars, checking, checkRemote, loadingGenres, step,
                 recentWatches, genreRatings, movieToRate, modalRating, commits,
                 started, entry, lastCommit>>
  /\ UNCHANGED notOnbVars

\* removeRecentWatch(id), the x of a recent watch
RemoveRecentWatch(id) ==
  /\ WizardVisible
  /\ step = "recent"
  /\ movieToRate = NoPick
  /\ id \in IdsOf(recentWatches)
  /\ recentWatches' = Without(recentWatches, id)
  /\ UNCHANGED <<storeVars, appVars, checking, checkRemote, loadingGenres, step,
                 favorites, genreRatings, movieToRate, modalRating, commits,
                 started, entry, lastCommit>>
  /\ UNCHANGED notOnbVars

\* updateRecentRating(id, rating), a star in the row of a recent watch
UpdateRecentRating(id, rating) ==
  /\ WizardVisible
  /\ step = "recent"
  /\ movieToRate = NoPick
  /\ id \in IdsOf(recentWatches)
  /\ recentWatches' = [i \in DOMAIN recentWatches |->
                         IF recentWatches[i].id = id
                         THEN [recentWatches[i] EXCEPT !.rating = rating]
                         ELSE recentWatches[i]]
  /\ UNCHANGED <<storeVars, appVars, checking, checkRemote, loadingGenres, step,
                 favorites, genreRatings, movieToRate, modalRating, commits,
                 started, entry, lastCommit>>
  /\ UNCHANGED notOnbVars

TitlesOf(list) == {list[i].title : i \in DOMAIN list}

\* the search results the user taps: the first hit whose title is not in the
\* list yet, and every hit with the title of the list's first entry
HitsShownOf(hits, list) ==
  {hits[i] : i \in {j \in DOMAIN hits :
      \/ /\ hits[j].title \notin TitlesOf(list)
         /\ \A k \in 1..(j - 1) : hits[k].title \in TitlesOf(list)
      \/ list # <<>> /\ hits[j].title = list[1].title}}
HitsShown(list) == HitsShownOf(SearchHits, list)

\* the entry whose x the user taps (the last) and the entry whose stars the
\* user taps (the first)
Removable(list) == {list[i].id : i \in {Len(list)} \cap DOMAIN list}
Rerated(list) == {list[i].id : i \in {1} \cap DOMAIN list}

\* the genre rows the user taps: the first, and the first one without a rating
GenresTouched == {i \in DOMAIN genreRatings : i = 1} \cup NextGenre

WizardNext ==
  \/ \E movie \in HitsShown(favorites) : AddFavorite(movie)
  \/ \E id \in Removable(favorites) : RemoveFavorite(id)
  \/ \E movie \in HitsShown(recentWatches) : AddRecentWatch(movie)
  \/ \E star \in WizardStars : SetTempRating(star)
  \/ ConfirmAddRecentWatch
  \/ CancelAddRecentWatch
  \/ \E id \in Removable(recentWatches) : RemoveRecentWatch(id)
  \/ \E id \in Rerated(recentWatches), star \in Stars :
       UpdateRecentRating(id, star)
  \/ \E idx \in GenresTouched, star \in WizardStars : RateGenre(idx, star)
  \/ HandleNext

WizardInit ==
  /\ WizardOnScreen
  /\ step = "favorites"
  /\ favorites = <<>>
  /\ recentWatches = <<>>
  /\ genreRatings = SampleGenreExamples
  /\ canProceed = NoRender

\* ------------------------------------------------------------------------
\* EditPreferencesScreen
\* ------------------------------------------------------------------------
MaxEditFavorites == 4
MaxEditRecentWatches == 10

\* the search results of the edit screen: SearchHits and five more titles
Library == SearchHits \o << [id |-> 8, title |-> "rope", year |-> 1948],
                            [id |-> 9, title |-> "big", year |-> 1988],
                            [id |-> 10, title |-> "up", year |-> 2009],
                            [id |-> 11, title |-> "ran", year |-> 1985],
                            [id |-> 12, title |-> "babe", year |-> 1995] >>
\* Library without the second movie of a title
DistinctHits ==
  SelectSeq(Library, LAMBDA m : \A i \in DOMAIN Library :
                         Library[i].title = m.title => Library[i].id >= m.id)

\* the genre rows of the genres tab
EditGenreNames ==
  <<"action", "adventure", "animation", "comedy", "crime", "documentary",
    "drama", "family", "fantasy", "horror", "music", "mystery", "romance",
    "sci-fi", "thriller", "western">>
\* the genre rows the user taps: one the wizard rated, one it did not offer
EditGenresTouched == {EditGenreNames[1], EditGenreNames[Len(EditGenreNames)]}

NoSave == [running |-> FALSE]

\* FirebaseAuthService.getCurrentUser() gives a user with a verified email
NoAuth == [pc |-> "idle"]
SignedIn == authUser = "verified" /\ handleAuth = NoAuth

EditIdle ==
  /\ editOpen = FALSE
  /\ editLoading = FALSE
  /\ saving = FALSE
  /\ savePending = NoSave
  /\ activeTab = "favorites"
  /\ editFavorites = <<>>
  /\ editRecentWatches = <<>>
  /\ editGenreRatings = <<>>
  /\ editMovieToRate = NoPick
  /\ editTempRating = 0
  /\ editAlert = "none"
  /\ saveTaps = 0

\* a profile as a commit or a save left it
StoredProfile(nFav, nRecent, nGenre) ==
  [CreatedProfile EXCEPT
     !.hasCompletedOnboarding = TRUE,
     !.favorites = [i \in 1..nFav |-> FavoriteOf(DistinctHits[i])],
     !.recentWatches = [i \in 1..nRecent |-> RecentOf(DistinctHits[i], 4)],
     !.genreRatings = [i \in DOMAIN GenreNames |->
                         [genre |-> GenreNames[i],
                          rating |-> IF i <= nGenre THEN 4 ELSE 0]]]

\* no document, or one with room for one more favorite and one more recent
StoredProfiles ==
  {NoProfile,
   StoredProfile(MaxEditFavorites - 1, MaxEditRecentWatches - 1, MinRatedGenres)}

\* the main experience with EditPreferencesScreen just mounted
EditInit ==
  /\ profile \in StoredProfiles
  /\ localHas = "true"
  /\ localPref = NoSnapshot
  /\ currentScreen = "main"
  /\ listener = "idle"
  /\ sessions = 1
  /\ checking = "off"
  /\ checkRemote = NullRemote
  /\ loadingGenres = FALSE
  /\ step = "favorites"
  /\ favorites = <<>>
  /\ recentWatches = <<>>
  /\ genreRatings = SampleGenreExamples
  /\ movieToRate = NoPick
  /\ modalRating = 0
  /\ commits = {}
  /\ started = 0
  /\ entry = NoEntry
  /\ lastCommit = NoCommit
  /\ canProceed = NoRender
  /\ editOpen = TRUE
  /\ editLoading = TRUE
  /\ saving = FALSE
  /\ savePending = NoSave
  /\ activeTab = "favorites"
  /\ editFavorites = <<>>
  /\ editRecentWatches = <<>>
  /\ editGenreRatings = <<>>
  /\ editMovieToRate = NoPick
  /\ editTempRating = 0
  /\ editAlert = "none"
  /\ saveTaps = 0

notEditVars == <<movieVars, onbVars, gateVars, saveVars, authVars, chatVars>>

\* the tabs and lists are on the screen and take taps
EditVisible ==
  editOpen /\ ~editLoading /\ editMovieToRate = NoPick /\ editAlert = "none"

\* loadUserData resolves: getUserProfile gave the document, null or threw
EditLoadUserData ==
  /\ editOpen
  /\ editLoading
  /\ editLoading' = FALSE
  /\ \E ok \in BOOLEAN :
       IF ok /\ profile.exists
       THEN /\ editFavorites' = profile.favorites
            /\ editRecentWatches' = profile.recentWatches
            /\ editGenreRatings' = profile.genreRatings
       ELSE UNCHANGED <<editFavorites, editRecentWatches, editGenreRatings>>
  /\ UNCHANGED <<editOpen, saving, savePending, activeTab, editMovieToRate,
                 editTempRating>>
  /\ UNCHANGED <<notEditVars, searchVars>>

\* a tab of the tab bar: setActiveTab(tab)
SetActiveTab(tab) ==
  /\ EditVisible
  /\ tab # activeTab
  /\ activeTab' = tab
  /\ UNCHANGED <<editOpen, editLoading, saving, savePending, editListVars>>
  /\ UNCHANGED <<notEditVars, searchVars>>

\* addFavorite(movie) of the edit screen
EditAddFavorite(movie) ==
  /\ EditVisible
  /\ activeTab = "favorites"
  /\ IF \/ Len(editFavorites) >= MaxEditFavorites
        \/ \E i \in DOMAIN editFavorites :
             /\ editFavorites[i].title = movie.title
             /\ editFavorites[i].year = movie.year
     THEN UNCHANGED <<editFavorites, searchVars>>
     ELSE /\ editFavorites' = Append(editFavorites, FavoriteOf(movie))
          /\ ClearSearchQuery
  /\ UNCHANGED <<editOpen, editLoading, saving, savePending, activeTab,
                 editRecentWatches, editGenreRatings, editMovieToRate,
                 editTempRating>>
  /\ UNCHANGED notEditVars

\* removeFavorite(id) of the edit screen
EditRemoveFavorite(id) ==
  /\ EditVisible
  /\ activeTab = "favorites"
  /\ id \in IdsOf(editFavorites)
  /\ editFavorites' = Without(editFavorites, id)
  /\ UNCHANGED <<editOpen, editLoading, saving, savePending, activeTab,
                 editRecentWatches, editGenreRatings, editMovieToRate,
                 editTempRating>>
  /\ UNCHANGED <<notEditVars, searchVars>>

\* addRecentWatch(movie) of the edit screen: opens the rating modal
EditAddRecentWatch(movie) ==
  /\ EditVisible
  /\ activeTab = "recent"
  /\ IF \/ Len(editRecentWatches) >= MaxEditRecentWatches
        \/ \E i \in DOMAIN editRecentWatches :
             /\ editRecentWatches[i].title = movie.title
             /\ editRecentWatches[i].year = movie.year
     THEN UNCHANGED <<editMovieToRate, editTempRating>>
     ELSE /\ editMovieToRate' = movie
          /\ editTempRating' = 0
  /\ UNCHANGED <<editOpen, editLoading, saving, savePending, activeTab,
                 editFavorites, editRecentWatches, editGenreRatings>>
  /\ UNCHANGED <<notEditVars, searchVars>>

\* a star of the edit screen's rating modal: setTempRating(star)
EditSetTempRating(star) ==
  /\ editOpen
  /\ editMovieToRate # NoPick
  /\ editTempRating' = star
  /\ UNCHANGED <<editOpen, editLoading, saving, savePending, activeTab,
                 editFavorites, editRecentWatches, editGenreRatings,
                 editMovieToRate>>
  /\ UNCHANGED <<notEditVars, searchVars>>

\* confirmAddRecentWatch of the edit screen
EditConfirmAddRecentWatch ==
  /\ editOpen
  /\ editMovieToRate # NoPick
  /\ IF editTempRating = 0
     THEN UNCHANGED <<editRecentWatches, editMovieToRate, editTempRating,
                      searchVars>>
     ELSE /\ editRecentWatches' =
               Append(editRecentWatches, RecentOf(editMovieToRate, editTempRating))
          /\ editMovieToRate' = NoPick
          /\ editTempRating' = 0
          /\ ClearSearchQuery
  /\ UNCHANGED <<editOpen, editLoading, saving, savePending, activeTab,
                 editFavorites, editGenreRatings>>
  /\ UNCHANGED notEditVars

\* the Cancel button of the edit screen's rating modal
EditCancelAddRecentWatch ==
  /\ editOpen
  /\ editMovieToRate # NoPick
  /\ editMovieToRate' = NoPick
  /\ editTempRating' = 0
  /\ UNCHANGED <<editOpen, editLoading, saving, savePending, activeTab,
                 editFavorites, editRecentWatches, editGenreRatings>>
  /\ UNCHANGED <<notEditVars, searchVars>>

\* removeRecentWatch(id) of the edit screen
EditRemoveRecentWatch(id) ==
  /\ EditVisible
  /\ activeTab = "recent"
  /\ id \in IdsOf(editRecentWatches)
  /\ editRecentWatches' = Without(editRecentWatches, id)
  /\ UNCHANGED <<editOpen, editLoading, saving, savePending, activeTab,
                 editFavorites, editGenreRatings, editMovieToRate,
                 editTempRating>>
  /\ UNCHANGED <<notEditVars, searchVars>>

\* updateRecentRating(id, rating) of the edit screen
EditUpdateRecentRating(id, rating) ==
  /\ EditVisible
  /\ activeTab = "recent"
  /\ id \in IdsOf(editRecentWatches)
  /\ editRecentWatches' = [i \in DOMAIN editRecentWatches |->
                             IF editRecentWatches[i].id = id
                             THEN [editRecentWatches[i] EXCEPT !.rating = rating]
                             ELSE editRecentWatches[i]]
  /\ UNCHANGED <<editOpen, editLoading, saving, savePending, activeTab,
                 editFavorites, editGenreRatings, editMovieToRate,
                 editTempRating>>
  /\ UNCHANGED <<notEditVars, searchVars>>

AppendGenre(prev, genre, rating) ==
  Append(prev, [genre |-> genre, rating |-> rating])

\* updateGenreRating's updater: replace the rating where the label matches,
\* or append a new entry
UpsertGenre(prev, genre, rating) ==
  IF \E i \in DOMAIN prev : prev[i].genre = genre
  THEN [i \in DOMAIN prev |->
          IF prev[i].genre = genre THEN [prev[i] EXCEPT !.rating = rating]
          ELSE prev[i]]
  ELSE Append(prev, [genre |-> genre, rating |-> rating])

\* updateGenreRating(genre, rating): the 0 button or a star of a genre row
UpdateGenreRating(genre, rating) ==
  /\ EditVisible
  /\ activeTab = "genres"
  /\ editGenreRatings' = UpsertGenre(editGenreRatings, genre, rating)
  /\ UNCHANGED <<editOpen, editLoading, saving, savePending, activeTab,
                 editFavorites, editRecentWatches, editMovieToRate,
                 editTempRating>>
  /\ UNCHANGED <<notEditVars, searchVars>>

EditHitsShown(list) == HitsShownOf(Library, list)

EditNext ==
  \/ EditLoadUserData
  \/ \E tab \in {"favorites", "recent", "genres"} : SetActiveTab(tab)
  \/ \E movie \in EditHitsShown(editFavorites) : EditAddFavorite(movie)
  \/ \E id \in Removable(editFavorites) : EditRemoveFavorite(id)
  \/ \E movie \in EditHitsShown(editRecentWatches) : EditAddRecentWatch(movie)
  \/ \E star \in WizardStars : EditSetTempRating(star)
  \/ EditConfirmAddRecentWatch
  \/ EditCancelAddRecentWatch
  \/ \E id \in Removable(editRecentWatches) : EditRemoveRecentWatch(id)
  \/ \E id \in Rerated(editRecentWatches), star \in Stars :
       EditUpdateRecentRating(id, star)
  \/ \E genre \in EditGenresTouched, rating \in {0} \cup WizardStars :
       UpdateGenreRating(genre, rating)

\* the wizard of a new user, or the edit screen of a user with a profile
PrefsInit ==
  \/ WizardInit /\ EditIdle
  \/ EditInit

PrefsNext == WizardNext \/ EditNext

\* ------------------------------------------------------------------------
\* EditPreferencesScreen: saveChanges
\* ------------------------------------------------------------------------
MaxSaves == 2            \* saveChanges is invoked at most this many times

UpdatePreferencesAndFlag(doc, favs, recents, genres) ==
  [doc EXCEPT !.favorites = favs, !.recentWatches = recents,
              !.genreRatings = genres, !.hasCompletedOnboarding = TRUE,
              !.lastUpdated = TRUE]

\* FirestoreService.updateUserPreferences: the document after updateDoc
UpdateUserPreferences(doc, favs, recents, genres) ==
  [doc EXCEPT !.favorites = favs, !.recentWatches = recents,
              !.genreRatings = genres, !.lastUpdated = TRUE]

\* a profile createUserProfile made and a save filled, never committed
UncommittedProfile ==
  [CreatedProfile EXCEPT
     !.favorites = <<FavoriteOf(DistinctHits[1])>>,
     !.recentWatches = <<RecentOf(DistinctHits[1], 4)>>]

\* the profiles the edit screen is opened on
SavedProfiles ==
  {NoProfile, UncommittedProfile, StoredProfile(MinFavorites, MinRecentWatches,
                                                MinRatedGenres)}

\* the main experience with EditPreferencesScreen just mounted, the user
\* signed in or gone since the screen was opened
SaveInit ==
  /\ profile \in SavedProfiles
  /\ localHas = "true"
  /\ localPref = NoSnapshot
  /\ currentScreen = "main"
  /\ listener = "idle"
  /\ sessions = 1
  /\ checking = "off"
  /\ checkRemote = NullRemote
  /\ loadingGenres = FALSE
  /\ step = "favorites"
  /\ favorites = <<>>
  /\ recentWatches = <<>>
  /\ genreRatings = SampleGenreExamples
  /\ movieToRate = NoPick
  /\ modalRating = 0
  /\ commits = {}
  /\ started = 0
  /\ entry = NoEntry
  /\ lastCommit = NoCommit
  /\ canProceed = NoRender
  /\ editOpen = TRUE
  /\ editLoading = TRUE
  /\ saving = FALSE
  /\ savePending = NoSave
  /\ activeTab = "favorites"
  /\ editFavorites = <<>>
  /\ editRecentWatches = <<>>
  /\ editGenreRatings = <<>>
  /\ editMovieToRate = NoPick
  /\ editTempRating = 0
  /\ editAlert = "none"
  /\ saveTaps = 0
  /\ SignedIn

\* the session ends under the screen (sign-out elsewhere, account removed):
\* getCurrentUser() gives null from now on
AuthLost ==
  /\ editOpen
  /\ authUser # "none"
  /\ authUser' = "none"
  /\ UNCHANGED <<chatVars, movieVars, searchVars, onbVars, gateVars, editVars, saveVars,
                 handleAuth>>

\* the save button (disabled while saving): saveChanges up to its await. With
\* no current user it returns through finally, which leaves saving false
SaveChanges ==
  /\ EditVisible
  /\ ~saving
  /\ saveTaps < MaxSaves
  /\ saveTaps' = saveTaps + 1
  /\ IF authUser = "none"
     THEN UNCHANGED <<saving, savePending>>
     ELSE /\ saving' = TRUE
          /\ savePending' = [running |-> TRUE,
                             favorites |-> editFavorites,
                             recentWatches |-> editRecentWatches,
                             genreRatings |-> editGenreRatings]
  /\ UNCHANGED <<editOpen, editLoading, activeTab, editListVars, editAlert>>
  /\ UNCHANGED <<chatVars, movieVars, searchVars, onbVars, gateVars, authVars>>

\* await updateUserPreferences resolves or throws (updateDoc throws when the
\* document does not exist); then the alert of the branch, then finally
SaveChangesDone ==
  /\ savePending.running
  /\ \E ok \in BOOLEAN :
       IF ok /\ profile.exists
       THEN /\ profile' = UpdateUserPreferences(profile, savePending.favorites,
                                                savePending.recentWatches,
                                                savePending.genreRatings)
            /\ editAlert' = "success"
       ELSE /\ editAlert' = "error"
            /\ UNCHANGED profile
  /\ saving' = FALSE
  /\ savePending' = NoSave
  /\ UNCHANGED <<editOpen, editLoading, activeTab, editListVars, saveTaps>>
  /\ UNCHANGED <<localHas, localPref, appVars, checking, checkRemote,
                 loadingGenres, wizardVars, commits, started, entry,
                 lastCommit>>
  /\ UNCHANGED <<chatVars, movieVars, searchVars, gateVars, authVars>>

\* the button of the alert: OK of the success alert is navigation.goBack()
EditDismissAlert ==
  /\ editAlert # "none"
  /\ editAlert' = "none"
  /\ editOpen' = IF editAlert = "success" THEN FALSE ELSE editOpen
  /\ UNCHANGED <<editLoading, saving, savePending, activeTab, editListVars,
                 saveTaps>>
  /\ UNCHANGED <<chatVars, movieVars, searchVars, onbVars, gateVars, authVars>>

SaveNext ==
  \/ EditLoadUserData
  \/ \E tab \in {"favorites", "recent", "genres"} : SetActiveTab(tab)
  \/ \E movie \in EditHitsShown(editFavorites) : EditAddFavorite(movie)
  \/ \E id \in Removable(editFavorites) : EditRemoveFavorite(id)
  \/ \E rating \in WizardStars : UpdateGenreRating(EditGenreNames[1], rating)
  \/ AuthLost
  \/ SaveChanges
  \/ SaveChangesDone
  \/ EditDismissAlert

\* ------------------------------------------------------------------------
\* The onboarding commit called with given collections
\* ------------------------------------------------------------------------
ValidFavorites == [i \in 1..MinFavorites |-> FavoriteOf(SearchHits[i])]
ValidRecentWatches ==
  [i \in 1..MinRecentWatches |-> RecentOf(SearchHits[i], 4)]
ValidGenreRatings ==
  [i \in DOMAIN GenreNames |->
     [genre |-> GenreNames[i], movies |-> "sample",
      rating |-> IF i <= MinRatedGenres THEN 4 ELSE 0]]

\* the collections a commit is called with: what the wizard gathers, and the
\* same with one collection that the wizard would not have let through
CommitArguments ==
  LET arg(f, r, g) == [favorites |-> f, recentWatches |-> r, genreRatings |-> g]
  IN { arg(ValidFavorites, ValidRecentWatches, ValidGenreRatings),
       arg([i \in 1..(MaxFavorites + 1) |-> FavoriteOf(SearchHits[i])],
           ValidRecentWatches, ValidGenreRatings),
       arg(<<FavoriteOf(SearchHits[1]), FavoriteOf(SearchHits[7])>>,
           ValidRecentWatches, ValidGenreRatings),
       arg(ValidFavorites,
           [i \in 1..(MaxRecentWatches + 1) |-> RecentOf(SearchHits[i], 4)],
           ValidGenreRatings),
       arg(ValidFavorites, [ValidRecentWatches EXCEPT ![1].rating = 0],
           ValidGenreRatings),
       arg(ValidFavorites, [ValidRecentWatches EXCEPT ![1].rating = 6],
           ValidGenreRatings),
       arg(ValidFavorites, ValidRecentWatches,
           [ValidGenreRatings EXCEPT ![2].genre = GenreNames[1]]) }

\* the wizard of a signed-in user with a fresh profile, on its last step
CommitInit ==
  /\ profile = CreatedProfile
  /\ localHas = "none"
  /\ localPref = NoSnapshot
  /\ currentScreen = "onboarding"
  /\ listener = "idle"
  /\ sessions = 1
  /\ checking = "done"
  /\ checkRemote = NullRemote
  /\ loadingGenres = FALSE
  /\ step = "genres"
  /\ favorites = <<>>
  /\ recentWatches = <<>>
  /\ genreRatings = SampleGenreExamples
  /\ movieToRate = NoPick
  /\ modalRating = 0
  /\ commits = {}
  /\ started = 0
  /\ entry = NoEntry
  /\ lastCommit = NoCommit
  /\ canProceed = NoRender

\* the last step of handleNext run on the given collections, up to its await;
\* the calls are made one after another
CommitWith(a) ==
  /\ WizardVisible
  /\ commits = {}
  /\ started < MaxCommits
  /\ commits' = {[NewCommit EXCEPT !.favorites = a.favorites,
                                   !.recentWatches = a.recentWatches,
                                   !.genreRatings = a.genreRatings]}
  /\ started' = started + 1
  /\ UNCHANGED <<storeVars, appVars, checking, checkRemote, loadingGenres,
                 wizardVars, entry, lastCommit>>
  /\ UNCHANGED notOnbVars

CommitNext ==
  \/ \E a \in CommitArguments : CommitWith(a)
  \/ \E c \in commits : CommitUpdateDoc(c)
  \/ \E c \in commits : CommitSetHas(c)
  \/ \E c \in commits : CommitSetPref(c)
  \/ \E c \in commits : DismissAlert(c)

\* ------------------------------------------------------------------------
\* App and AuthScreen: signing in and out
\* ------------------------------------------------------------------------
\* the accounts a person signs in with, by what emailVerified is
Accounts == {"unverified", "verified"}

\* the profile of a user who finished onboarding earlier
CompletedProfile ==
  StoredProfile(MinFavorites, MinRecentWatches, MinRatedGenres)

\* App is mounted: currentScreen is 'loading' and onAuthStateChanged is about
\* to call back with the user the authentication service kept, if any; the
\* device holds no local flag, or the one an earlier session left
AuthInit ==
  /\ profile \in {NoProfile, CreatedProfile, CompletedProfile}
  /\ localHas \in {"none", "true"}
  /\ localPref = NoSnapshot
  /\ currentScreen = "loading"
  /\ listener = "notified"
  /\ sessions = 1
  /\ checking = "off"
  /\ checkRemote = NullRemote
  /\ loadingGenres = FALSE
  /\ step = "favorites"
  /\ favorites = <<>>
  /\ recentWatches = <<>>
  /\ genreRatings = SampleGenreExamples
  /\ movieToRate = NoPick
  /\ modalRating = 0
  /\ commits = {}
  /\ started = 0
  /\ entry = NoEntry
  /\ lastCommit = NoCommit
  /\ canProceed = NoRender
  /\ authUser \in {"none"} \cup (IF profile.exists THEN Accounts ELSE {})
  /\ handleAuth = NoAuth

\* the callback of onAuthStateChanged up to its first await: a verified user
\* goes on to the status check, anything else shows the welcome screen
ListenerCallback ==
  /\ listener = "notified"
  /\ IF authUser = "verified"
     THEN /\ listener' = "checkStatus"
          /\ UNCHANGED <<currentScreen, checking, checkRemote, loadingGenres,
                         wizardVars>>
     ELSE /\ listener' = "idle"
          /\ currentScreen' = "welcome"
          /\ UnmountOnboarding
  /\ UNCHANGED <<storeVars, sessions, commits, started, entry, lastCommit>>
  /\ UNCHANGED notOnbVars

\* 'get started' on the welcome screen
GetStarted ==
  /\ currentScreen = "welcome"
  /\ currentScreen' = "auth"
  /\ UNCHANGED <<storeVars, listener, sessions, checking, checkRemote,
                 loadingGenres, wizardVars, commits, started, entry, lastCommit>>
  /\ UNCHANGED notOnbVars

\* onBack of AuthScreen
AuthBack ==
  /\ currentScreen = "auth"
  /\ handleAuth.pc = "idle"
  /\ currentScreen' = "welcome"
  /\ UNCHANGED <<storeVars, listener, sessions, checking, checkRemote,
                 loadingGenres, wizardVars, commits, started, entry, lastCommit>>
  /\ UNCHANGED notOnbVars

\* handleAuth with isSignUp false, up to await signIn (the button is disabled
\* while isLoading)
HandleAuth(account) ==
  /\ currentScreen = "auth"
  /\ handleAuth.pc = "idle"
  /\ authUser = "none"
  /\ profile.exists \/ account = "unverified"
  /\ handleAuth' = [pc |-> "signIn", account |-> account]
  /\ UNCHANGED <<chatVars, movieVars, searchVars, onbVars, gateVars, editVars, saveVars,
                 authUser>>

\* await FirebaseAuthService.signIn: signInWithEmailAndPassword signs the
\* account in whether its email is verified or not and notifies the listener;
\* handleAuth goes on to onAuthComplete(userData), or shows the error
SignInDone ==
  /\ handleAuth.pc = "signIn"
  /\ listener = "idle"
  /\ \E ok \in BOOLEAN :
       IF ok
       THEN /\ authUser' = handleAuth.account
            /\ listener' = "notified"
            /\ handleAuth' = [handleAuth EXCEPT !.pc = "getProfile"]
       ELSE /\ handleAuth' = NoAuth
            /\ UNCHANGED <<authUser, listener>>
  /\ UNCHANGED <<storeVars, currentScreen, sessions, checking, checkRemote,
                 loadingGenres, wizardVars, commits, started, entry, lastCommit>>
  /\ UNCHANGED <<chatVars, movieVars, searchVars, gateVars, editVars, saveVars>>

\* handleAuthComplete after await getUserProfile: a missing profile is
\* created next; otherwise, and in the catch, setCurrentScreen('onboarding')
AuthGetProfile ==
  /\ handleAuth.pc = "getProfile"
  /\ \E ok \in BOOLEAN :
       IF ok /\ ~profile.exists
       THEN /\ handleAuth' = [handleAuth EXCEPT !.pc = "createProfile"]
            /\ UNCHANGED <<currentScreen, checking, checkRemote, loadingGenres,
                           wizardVars>>
       ELSE /\ handleAuth' = NoAuth
            /\ ShowOnboarding
  /\ UNCHANGED <<storeVars, listener, sessions, commits, started, entry,
                 lastCommit>>
  /\ UNCHANGED <<chatVars, movieVars, searchVars, gateVars, editVars, saveVars, authUser>>

\* handleAuthComplete after await createUserProfile, written or thrown:
\* setCurrentScreen('onboarding')
AuthCreateProfile ==
  /\ handleAuth.pc = "createProfile"
  /\ handleAuth' = NoAuth
  /\ \E ok \in BOOLEAN :
       profile' = IF ok /\ ~profile.exists THEN CreatedProfile ELSE profile
  /\ ShowOnboarding
  /\ UNCHANGED <<localHas, localPref, listener, sessions, commits, started,
                 entry, lastCommit>>
  /\ UNCHANGED <<chatVars, movieVars, searchVars, gateVars, editVars, saveVars, authUser>>

\* ProfileScreen.handleSignOut, confirmed: await signOut() ends the session
\* and notifies the listener, or throws into the 'failed to sign out' alert.
\* Nothing else is done: no AsyncStorage key is removed
HandleSignOut ==
  /\ currentScreen = "main"
  /\ authUser # "none"
  /\ listener = "idle"
  /\ \E ok \in BOOLEAN :
       IF ok
       THEN authUser' = "none" /\ listener' = "notified"
       ELSE UNCHANGED <<authUser, listener>>
  /\ UNCHANGED <<storeVars, currentScreen, sessions, checking, checkRemote,
                 loadingGenres, wizardVars, commits, started, entry, lastCommit>>
  /\ UNCHANGED <<chatVars, movieVars, searchVars, gateVars, editVars, saveVars,
                 handleAuth>>

AuthNext ==
  \/ ListenerCallback
  \/ ListenerStatus
  \/ ListenerLocal
  \/ GetStarted
  \/ AuthBack
  \/ \E account \in Accounts : HandleAuth(account)
  \/ SignInDone
  \/ AuthGetProfile
  \/ AuthCreateProfile
  \/ CheckGetRemote
  \/ CheckSetHas
  \/ CheckSetPref
  \/ CheckGetLocal
  \/ HandleSignOut

\* ------------------------------------------------------------------------
\* Signing in while every store call succeeds
\* ------------------------------------------------------------------------
\* the steps of AuthNext with the outcome of each await taken as success, and
\* nobody signing out
StatusRead == ListenerStatus /\ ~entry'.readFailed
SignInSucceeded == SignInDone /\ authUser' # "none"
ProfileRead ==
  AuthGetProfile /\ (profile.exists \/ handleAuth'.pc = "createProfile")
ProfileCreated == AuthCreateProfile /\ profile'.exists
RemoteRead == CheckGetRemote /\ ~entry'.readFailed
FlagCached == CheckSetHas /\ checking' = "setPref"
SnapshotCached == CheckSetPref /\ currentScreen' = "main"

SettleNext ==
  \/ ListenerCallback
  \/ StatusRead
  \/ ListenerLocal
  \/ GetStarted
  \/ AuthBack
  \/ \E account \in Accounts : HandleAuth(account)
  \/ SignInSucceeded
  \/ ProfileRead
  \/ ProfileCreated
  \/ RemoteRead
  \/ FlagCached
  \/ SnapshotCached
  \/ CheckGetLocal

\* a promise that is awaited resolves and its continuation runs; the taps of
\* the user are under no obligation
SettleFairness ==
  /\ WF_vars(ListenerCallback)
  /\ WF_vars(StatusRead)
  /\ WF_vars(ListenerLocal)
  /\ WF_vars(SignInSucceeded)
  /\ WF_vars(ProfileRead)
  /\ WF_vars(ProfileCreated)
  /\ WF_vars(RemoteRead)
  /\ WF_vars(FlagCached)
  /\ WF_vars(SnapshotCached)
  /\ WF_vars(CheckGetLocal)

\* ------------------------------------------------------------------------
\* ChatScreen
\* ------------------------------------------------------------------------
MaxSends == 2            \* sendMessage goes past its guard at most this often
\* what the user types into the message field
ChatTexts == { <<>>, <<" ">>, <<"h", "i">>, <<" ", "o", "k">> }

NoSend == [pc |-> "idle"]

ChatIdle ==
  /\ chatDoc = FALSE
  /\ chatMessages = <<>>
  /\ chatInit = "off"
  /\ inputText = <<>>
  /\ sending = FALSE
  /\ send = NoSend
  /\ chatAlert = "none"
  /\ sends = 0

\* ChatScreen is mounted for a signed-in user and a chatId: initializeChat is
\* running; the chat document was made elsewhere, or does not exist
ChatInit ==
  /\ chatDoc \in BOOLEAN
  /\ chatMessages = <<>>
  /\ chatInit = "getDoc"
  /\ inputText = <<>>
  /\ sending = FALSE
  /\ send = NoSend
  /\ chatAlert = "none"
  /\ sends = 0

\* initializeChat after await getDoc(chatRef): a missing document is written
\* with updateDoc next; a failed read ends in the alert of the catch
InitializeChatRead ==
  /\ chatInit = "getDoc"
  /\ chatAlert = "none"
  /\ \E ok \in BOOLEAN :
       IF ~ok THEN chatInit' = "done" /\ chatAlert' = "error"
       ELSE IF chatDoc THEN chatInit' = "done" /\ UNCHANGED chatAlert
       ELSE chatInit' = "updateDoc" /\ UNCHANGED chatAlert
  /\ UNCHANGED <<chatDoc, chatMessages, inputText, sending, send, sends>>
  /\ UNCHANGED <<movieVars, searchVars, onbVars, gateVars, editVars, saveVars,
                 authVars>>

\* initializeChat after await updateDoc(chatRef, ...): updateDoc does not
\* create a document, it throws when there is none
InitializeChatWrite ==
  /\ chatInit = "updateDoc"
  /\ chatAlert = "none"
  /\ chatInit' = "done"
  /\ chatAlert' = IF chatDoc THEN "none" ELSE "error"
  /\ UNCHANGED <<chatDoc, chatMessages, inputText, sending, send, sends>>
  /\ UNCHANGED <<movieVars, searchVars, onbVars, gateVars, editVars, saveVars,
                 authVars>>

\* onChangeText of the message field (editable while not sending)
SetInputText(text) ==
  /\ chatAlert = "none"
  /\ ~sending
  /\ text # inputText
  /\ inputText' = text
  /\ UNCHANGED <<chatDoc, chatMessages, chatInit, sending, send, chatAlert,
                 sends>>
  /\ UNCHANGED <<movieVars, searchVars, onbVars, gateVars, editVars, saveVars,
                 authVars>>

\* sendMessage up to its first await
SendMessage ==
  /\ chatAlert = "none"
  /\ Trim(inputText) # <<>>
  /\ authUser # "none"
  /\ ~sending
  /\ sends < MaxSends
  /\ sends' = sends + 1
  /\ send' = [pc |-> "addDoc", text |-> Trim(inputText),
              before |-> chatMessages]
  /\ inputText' = <<>>
  /\ sending' = TRUE
  /\ UNCHANGED <<chatDoc, chatMessages, chatInit, chatAlert>>
  /\ UNCHANGED <<movieVars, searchVars, onbVars, gateVars, editVars, saveVars,
                 authVars>>

\* catch and finally of sendMessage: the alert, the text back in the field
SendFailed ==
  /\ chatAlert' = "error"
  /\ inputText' = send.text
  /\ sending' = FALSE
  /\ send' = NoSend

\* sendMessage after await addDoc(messagesRef, ...)
SendAddDoc ==
  /\ send.pc = "addDoc"
  /\ \E ok \in BOOLEAN :
       IF ok
       THEN /\ chatMessages' = Append(chatMessages, send.text)
            /\ send' = [send EXCEPT !.pc = "updateDoc"]
            /\ UNCHANGED <<inputText, sending, chatAlert>>
       ELSE /\ SendFailed
            /\ UNCHANGED chatMessages
  /\ UNCHANGED <<chatDoc, chatInit, sends>>
  /\ UNCHANGED <<movieVars, searchVars, onbVars, gateVars, editVars, saveVars,
                 authVars>>

\* sendMessage after await updateDoc(chatRef, {lastMessage, ...}), which
\* throws when the chat document does not exist
SendUpdateDoc ==
  /\ send.pc = "updateDoc"
  /\ \E net \in BOOLEAN :
       IF net /\ chatDoc
       THEN /\ sending' = FALSE
            /\ send' = NoSend
            /\ UNCHANGED <<inputText, chatAlert>>
       ELSE SendFailed
  /\ UNCHANGED <<chatDoc, chatMessages, chatInit, sends>>
  /\ UNCHANGED <<movieVars, searchVars, onbVars, gateVars, editVars, saveVars,
                 authVars>>

\* the button of the alert
ChatDismissAlert ==
  /\ chatAlert # "none"
  /\ chatAlert' = "none"
  /\ UNCHANGED <<chatDoc, chatMessages, chatInit, inputText, sending, send,
                 sends>>
  /\ UNCHANGED <<movieVars, searchVars, onbVars, gateVars, editVars, saveVars,
                 authVars>>

ChatNext ==
  \/ InitializeChatRead
  \/ InitializeChatWrite
  \/ \E text \in ChatTexts : SetInputText(text)
  \/ SendMessage
  \/ SendAddDoc
  \/ SendUpdateDoc
  \/ ChatDismissAlert

\* ------------------------------------------------------------------------
\* Specifications
\* ------------------------------------------------------------------------
InitMovie ==
  MovieInit /\ SearchIdle /\ OnbIdle /\ GateIdle /\ EditIdle /\ SignedIn /\ ChatIdle

SpecMovie == InitMovie /\ [][MovieNext]_vars

InitSearch ==
  SearchInit /\ MovieIdle /\ OnbIdle /\ GateIdle /\ EditIdle /\ SignedIn /\ ChatIdle

SpecSearch == InitSearch /\ [][SearchNext]_vars

InitOnb ==
  OnbInit /\ MovieIdle /\ SearchIdle /\ GateIdle /\ EditIdle /\ SignedIn /\ ChatIdle

SpecOnb == InitOnb /\ [][OnbNext]_vars

InitGate == GateInit /\ MovieIdle /\ SearchIdle /\ EditIdle /\ SignedIn /\ ChatIdle

SpecGate == InitGate /\ [][GateNext]_vars

InitPrefs == PrefsInit /\ MovieIdle /\ SearchIdle /\ SignedIn /\ ChatIdle

SpecPrefs == InitPrefs /\ [][PrefsNext]_vars

InitSave == SaveInit /\ MovieIdle /\ SearchIdle /\ ChatIdle

SpecSave == InitSave /\ [][SaveNext]_vars

InitCommit ==
  CommitInit /\ MovieIdle /\ SearchIdle /\ EditIdle /\ SignedIn /\ ChatIdle

SpecCommit == InitCommit /\ [][CommitNext]_vars

InitAuth == AuthInit /\ MovieIdle /\ SearchIdle /\ EditIdle /\ ChatIdle

SpecAuth == InitAuth /\ [][AuthNext]_vars

InitChat ==
  ChatInit /\ MovieIdle /\ SearchIdle /\ OnbIdle /\ GateIdle /\ EditIdle /\ SignedIn

SpecChat == InitChat /\ [][ChatNext]_vars

SpecSettle == InitAuth /\ [][SettleNext]_vars /\ SettleFairness

\* ------------------------------------------------------------------------
\* Claims about MovieDetailScreen (checked under SpecMovie)
\* ------------------------------------------------------------------------
\* the transition table of the counters: <<change of watched, of watchlist>>
TransitionTable(prev, new) ==
  IF prev = new THEN <<0, 0>>
  ELSE <<(IF new = "watched" THEN 1 ELSE 0) - (IF prev = "watched" THEN 1 ELSE 0),
         (IF new = "watchlist" THEN 1 ELSE 0) - (IF prev = "watchlist" THEN 1 ELSE 0)>>

CountOf(status) ==
  Cardinality({m \in Movies : movieDocs[m].exists /\ movieDocs[m].status = status})

\* C1: a completed save has changed watchedMovies / watchlistMovies by what the
\* transition table gives for (status stored before the save, status written),
\* floored at 0.
C1_SaveFollowsTransitionTable ==
  lastSave.valid =>
    /\ lastSave.w1 = Max0(lastSave.w0 + TransitionTable(lastSave.prev, lastSave.new)[1])
    /\ lastSave.l1 = Max0(lastSave.l0 + TransitionTable(lastSave.prev, lastSave.new)[2])

\* C2: after every completed save the counters equal the numbers of movie
\* records with status watched and watchlist.
C2_CountersMatchRecords ==
  lastSave.valid =>
    /\ userDoc.watchedMovies = CountOf("watched")
    /\ userDoc.watchlistMovies = CountOf("watchlist")

\* C3: the stored counters are never negative; a save's counter write floors
\* the adjusted value at 0, also when the stored counter was missing or 0.
C3_CountersNonNegative ==
  /\ userDoc.watchedMovies >= 0
  /\ userDoc.watchlistMovies >= 0
  /\ lastSave.valid => lastSave.w1 >= 0 /\ lastSave.l1 >= 0

\* a save whose adjusted watchlist count fell below 0 has written 0
C3_ClampedWrite ==
  /\ save.pc = "savedAlert"
  /\ lastSave.valid
  /\ save.l0 = 0
  /\ save.watchlistCount < 0
  /\ userDoc.watchlistMovies = 0

\* ------------------------------------------------------------------------
\* Claims about the search (checked under SpecSearch)
\* ------------------------------------------------------------------------
\* C4: last query wins: whenever the visible results change, they become the
\* results of the query that is current at that moment; the response of a
\* search for an earlier query never replaces them.
C4_LastQueryWins ==
  [][searchResults' # searchResults => searchResults'.query = Trim(searchQuery')]_vars

\* ------------------------------------------------------------------------
\* Claims about session start and the onboarding commit (checked under SpecOnb)
\* ------------------------------------------------------------------------
\* C5: the local flag alone never completes onboarding: the wizard is skipped
\* on the local flag only when the remote profile's completion flag is set.
C5_LocalFlagAloneNeverCompletes ==
  entry.via = "local" => entry.remoteDone

\* C6: when the latest remote status read of the session failed, the app is
\* not in the main experience unless a commit has succeeded since.
C6_ReadFailureRoutesToWizard ==
  (currentScreen = "main" /\ entry.readFailed) => entry.via = "commit"

\* C7: once a commit has written the profile, a successful resolution (the
\* listener's status check, checkExisting's read) reports completed and
\* returns the committed favorites, recent watches and genre ratings.
C7_CommitResolveRoundTrip ==
  [][/\ (/\ lastCommit.valid
         /\ listener = "checkStatus" /\ listener' # "checkStatus"
         /\ ~entry'.readFailed)
        => currentScreen' = "main"
     /\ (/\ lastCommit.valid
         /\ checking = "getRemote" /\ checking' \in {"setHas", "getLocal"}
         /\ ~entry'.readFailed)
        => /\ checking' = "setHas"
           /\ checkRemote'.favorites = lastCommit.favorites
           /\ checkRemote'.recentWatches = lastCommit.recentWatches
           /\ checkRemote'.genreRatings = lastCommit.genreRatings]_vars

\* checkExisting has read back a committed, non-empty preference triple
C7_ResolvedAfterCommit ==
  /\ checking = "setHas"
  /\ lastCommit.valid
  /\ ~checkRemote.null
  /\ checkRemote.favorites = lastCommit.favorites
  /\ Len(checkRemote.favorites) >= MinFavorites
  /\ Len(checkRemote.recentWatches) >= MinRecentWatches
  /\ \E i \in DOMAIN checkRemote.genreRatings :
       checkRemote.genreRatings[i].rating > 0

\* C8: a commit writes the local flag and snapshot, and signals completion,
\* only after its remote write succeeded; a commit whose remote write failed
\* has written nothing locally and shows the error.
C8_RemoteFailureFailsCommit ==
  /\ \A c \in commits :
       /\ (c.pc \in {"setHas", "setPref"} \/ c.localWrites > 0) => c.remoteOK
       /\ ~c.remoteOK => c.pc \in {"updateDoc", "failed"}
  /\ entry.via = "commit" => entry.remoteDone

\* a commit's remote write failed: nothing local is written, the wizard stays
C8_RemoteWriteFailed ==
  /\ \E c \in commits : c.pc = "failed" /\ ~c.remoteOK /\ c.localWrites = 0
  /\ localHas = "none"
  /\ localPref = NoSnapshot
  /\ currentScreen = "onboarding"

FailedIn(cs) == {c \in cs : c.pc = "failed"}

\* C9: the step in which a commit fails leaves step, favorites, recent watches
\* and genre ratings (and the rating modal) as they were.
C9_FailedCommitKeepsWizard ==
  [][Cardinality(FailedIn(commits')) > Cardinality(FailedIn(commits))
       => UNCHANGED wizardVars]_vars

\* a failed commit with the wizard still holding what was submitted
C9_FailedWithDataIntact ==
  /\ currentScreen = "onboarding"
  /\ step = "genres"
  /\ \E c \in commits :
       /\ c.pc = "failed"
       /\ favorites = c.favorites
       /\ recentWatches = c.recentWatches
       /\ genreRatings = c.genreRatings
  /\ CanProceedFromStep

\* C10: at most one commit (store write sequence of handleNext) is outstanding
\* at any time.
C10_OneCommitOutstanding ==
  Cardinality({c \in commits : c.pc \in {"updateDoc", "setHas", "setPref"}}) <= 1

\* ------------------------------------------------------------------------
\* Claims about the wizard's gate (checked under SpecGate)
\* ------------------------------------------------------------------------
\* C11: canProceedFromStep is true on step favorites iff there are at least 2
\* favorites, on step recent iff there are at least 3 recent watches and each
\* has a rating > 0, on step genres iff at least 4 genres have a rating > 0.
C11_GateMatchesThresholds ==
  canProceed.rendered =>
    canProceed.shown =
      IF step = "favorites" THEN Len(favorites) >= 2
      ELSE IF step = "recent"
      THEN /\ Len(recentWatches) >= 3
           /\ \A i \in DOMAIN recentWatches : recentWatches[i].rating > 0
      ELSE Cardinality({i \in DOMAIN genreRatings :
                          genreRatings[i].rating > 0}) >= 4

\* the gate is closed for three recent watches of which one is unrated
C11_UnratedRecentBlocks ==
  /\ canProceed.rendered
  /\ ~canProceed.shown
  /\ step = "recent"
  /\ Len(recentWatches) = 3
  /\ \E i \in DOMAIN recentWatches : recentWatches[i].rating = 0

\* ------------------------------------------------------------------------
\* Claims about the wizard's steps and the preference collections of the
\* wizard and the edit screen (checked under SpecPrefs)
\* ------------------------------------------------------------------------
AllRated(list) == \A i \in DOMAIN list : list[i].rating > 0
RatedGenres(list) == {i \in DOMAIN list : list[i].rating > 0}

\* C12: the step changes only from favorites to recent and from recent to
\* genres, each time with the gate of the step left open, and a commit is
\* started only on step genres, with at least 2 favorites, at least 3 recent
\* watches all rated, and at least 4 rated genres.
C12_ForwardOnlyThroughGates ==
  [][/\ step' # step =>
          \/ /\ step = "favorites" /\ step' = "recent"
             /\ Len(favorites) >= 2
          \/ /\ step = "recent" /\ step' = "genres"
             /\ Len(recentWatches) >= 3 /\ AllRated(recentWatches)
     /\ \A c \in commits' \ commits :
          /\ step = "genres"
          /\ c.favorites = favorites
          /\ c.recentWatches = recentWatches
          /\ c.genreRatings = genreRatings
          /\ Len(c.favorites) >= 2
          /\ Len(c.recentWatches) >= 3 /\ AllRated(c.recentWatches)
          /\ Cardinality(RatedGenres(c.genreRatings)) >= 4]_vars

\* a commit was started from the genres step
C12_CommitInvoked ==
  /\ step = "genres"
  /\ \E c \in commits :
       /\ c.pc = "updateDoc"
       /\ Len(c.favorites) >= 2
       /\ Len(c.recentWatches) >= 3
       /\ Cardinality(RatedGenres(c.genreRatings)) >= 4

\* C13: the favorites of the wizard and of the edit screen never number more
\* than 4.
C13_FavoritesAtMostFour ==
  /\ Len(favorites) <= 4
  /\ Len(editFavorites) <= 4

\* the wizard holds 4 favorites and its search results can still be tapped
C13_FavoritesFull ==
  /\ WizardVisible
  /\ step = "favorites"
  /\ Len(favorites) = 4
  /\ HitsShown(favorites) # {}

\* C14: no two favorites, of the wizard or of the edit screen, share a title.
C14_FavoriteTitlesUnique ==
  /\ \A i, j \in DOMAIN favorites :
       favorites[i].title = favorites[j].title => i = j
  /\ \A i, j \in DOMAIN editFavorites :
       editFavorites[i].title = editFavorites[j].title => i = j

\* C15: the wizard never holds more than 5 recent watches and the edit screen
\* never more than 10, and the rating modal is not open for one more when the
\* cap is reached.
C15_RecentWatchesWithinCap ==
  /\ Len(recentWatches) <= 5
  /\ Len(editRecentWatches) <= 10
  /\ movieToRate # NoPick => Len(recentWatches) < 5
  /\ editMovieToRate # NoPick => Len(editRecentWatches) < 10

\* the wizard holds 5 recent watches and its search results can still be tapped
C15_RecentWatchesFull ==
  /\ WizardVisible
  /\ step = "recent"
  /\ Len(recentWatches) = 5
  /\ HitsShown(recentWatches) # {}

\* C16: every recent watch of the wizard and of the edit screen has a rating
\* in 1..5.
C16_RecentRatingsInRange ==
  /\ \A i \in DOMAIN recentWatches : recentWatches[i].rating \in 1..5
  /\ \A i \in DOMAIN editRecentWatches : editRecentWatches[i].rating \in 1..5

\* recent watches that were confirmed, one of them rated again since
C16_RecentRerated ==
  /\ Len(recentWatches) >= 2
  /\ recentWatches[1].rating \in Stars
  /\ recentWatches[2].rating \in WizardStars

\* C17: opening the rating modal sets the temporary rating to 0 and leaves the
\* recent watches alone; while the modal is open the recent watches change
\* only by a confirm with a rating > 0, which appends the pending movie; and
\* when the modal closes the temporary rating is 0 again.
C17_TwoPhaseAdd ==
  [][/\ (movieToRate = NoPick /\ movieToRate' # NoPick)
          => (modalRating' = 0 /\ recentWatches' = recentWatches)
     /\ (movieToRate # NoPick /\ recentWatches' # recentWatches)
          => /\ modalRating > 0
             /\ recentWatches' =
                  Append(recentWatches, RecentOf(movieToRate, modalRating))
             /\ movieToRate' = NoPick
     /\ (movieToRate # NoPick /\ modalRating = 0)
          => recentWatches' = recentWatches
     /\ movieToRate' = NoPick => modalRating' = 0]_vars

\* the rating modal is open over a non-empty list, nothing rated yet
C17_RatingStepOpen ==
  /\ step = "recent"
  /\ movieToRate # NoPick
  /\ modalRating = 0
  /\ Len(recentWatches) >= 1

LabelsOf(list) == {list[i].genre : i \in DOMAIN list}
LabelsUnique(list) ==
  \A i, j \in DOMAIN list : list[i].genre = list[j].genre => i = j

\* C18: genre labels are unique in the wizard's and the edit screen's genre
\* ratings; rating a genre changes the rating of that one entry only, or, in
\* the edit screen, appends the entry when the label is new; and applying the
\* same (genre, rating) twice gives what applying it once gives.
C18_GenreUpsert ==
  /\ [](/\ LabelsUnique(genreRatings)
        /\ LabelsUnique(editGenreRatings)
        /\ \A g \in EditGenresTouched, r \in 0..5 :
             UpsertGenre(UpsertGenre(editGenreRatings, g, r), g, r)
               = UpsertGenre(editGenreRatings, g, r))
  /\ [][/\ genreRatings' # genreRatings =>
             /\ DOMAIN genreRatings' = DOMAIN genreRatings
             /\ \E idx \in DOMAIN genreRatings :
                  \A i \in DOMAIN genreRatings :
                    genreRatings'[i] =
                      IF i = idx
                      THEN [genreRatings[i] EXCEPT
                              !.rating = genreRatings'[i].rating]
                      ELSE genreRatings[i]
        /\ (editGenreRatings' # editGenreRatings /\ ~editLoading) =>
             \E g \in LabelsOf(editGenreRatings') :
               IF g \in LabelsOf(editGenreRatings)
               THEN /\ DOMAIN editGenreRatings' = DOMAIN editGenreRatings
                    /\ \A i \in DOMAIN editGenreRatings :
                         /\ editGenreRatings'[i].genre = editGenreRatings[i].genre
                         /\ editGenreRatings[i].genre # g
                              => editGenreRatings'[i] = editGenreRatings[i]
               ELSE /\ Len(editGenreRatings') = Len(editGenreRatings) + 1
                    /\ SubSeq(editGenreRatings', 1, Len(editGenreRatings))
                         = editGenreRatings
                    /\ editGenreRatings'[Len(editGenreRatings')].genre = g]_vars

\* the edit screen created the entry of one genre and replaced the rating of
\* another
C18_CreatedAndReplaced ==
  /\ \E i \in DOMAIN editGenreRatings :
       editGenreRatings[i].genre = "western" /\ editGenreRatings[i].rating > 0
  /\ \E i \in DOMAIN editGenreRatings :
       editGenreRatings[i].genre = "action" /\ editGenreRatings[i].rating = 0
  /\ Len(editGenreRatings) = Len(GenreNames) + 1

\* ------------------------------------------------------------------------
\* Claims about short queries and the debounce (checked under SpecSearch)
\* ------------------------------------------------------------------------
\* C19: once the quiet period of a query shorter than 2 characters (trimmed)
\* has elapsed, no catalog call is outstanding for a short query and the
\* visible results are empty.
C19_ShortQueryShowsNothing ==
  /\ \A s \in inflight : Len(s.query) >= 2
  /\ (~timer.armed /\ Len(Trim(searchQuery)) < 2) => ~searchResults.found

\* C20: a change of the query replaces the pending search by one for the new
\* query without a catalog call, and a catalog call is made only by the
\* pending search of the current query, once.
C20_DebounceCancels ==
  [][/\ searchQuery' # searchQuery
          => /\ timer' = [armed |-> TRUE, query |-> searchQuery']
             /\ dispatched' = dispatched
             /\ inflight' = inflight
     /\ dispatched' # dispatched
          => /\ timer.armed /\ timer.query = searchQuery
             /\ ~timer'.armed
             /\ dispatched' = dispatched + 1
             /\ inflight' = inflight \cup {[n |-> dispatched',
                                            query |-> Trim(searchQuery)]}]_vars

\* the third text typed is the only one searched for
C20_OneCallForLastQuery ==
  /\ searchQuery = <<"a", "b", "c">>
  /\ dispatched = 1
  /\ inflight = {[n |-> 1, query |-> <<"a", "b", "c">>]}
  /\ ~timer.armed


\* ------------------------------------------------------------------------
\* Claims about saveChanges (checked under SpecSave)
\* ------------------------------------------------------------------------

\* C21: a step that changes the profile document while a saveChanges call is
\* running puts the favorites, recent watches and genre ratings the call
\* captured and a fresh lastUpdated into it, and leaves hasCompletedOnboarding
\* and the existence of the document as they were.
C21_SaveKeepsCompletionFlag ==
  [][(savePending.running /\ profile' # profile) =>
       /\ profile'.favorites = savePending.favorites
       /\ profile'.recentWatches = savePending.recentWatches
       /\ profile'.genreRatings = savePending.genreRatings
       /\ profile'.lastUpdated = TRUE
       /\ profile'.hasCompletedOnboarding = profile.hasCompletedOnboarding
       /\ profile'.exists = profile.exists]_vars

\* a save went through on a profile that was never committed, and on one that
\* was: the success alert is up and the document holds edited lists
C21_SavedIncompleteProfile ==
  /\ editAlert = "success"
  /\ profile.exists
  /\ ~profile.hasCompletedOnboarding
  /\ profile.favorites # UncommittedProfile.favorites

\* ------------------------------------------------------------------------
\* Claims about the commit's arguments (checked under SpecCommit)
\* ------------------------------------------------------------------------
\* the invariants of the data model, over the three collections
ValidCollections(favs, recents, genres) ==
  /\ Len(favs) <= MaxFavorites
  /\ \A i, j \in DOMAIN favs : favs[i].title = favs[j].title => i = j
  /\ Len(recents) <= MaxRecentWatches
  /\ \A i \in DOMAIN recents : recents[i].rating \in 1..5
  /\ \A i, j \in DOMAIN genres : genres[i].genre = genres[j].genre => i = j

C23_NoUserSaveIsReported ==
  [][(saveTaps' # saveTaps /\ authUser = "none") =>
       /\ editAlert' = "error"
       /\ profile' = profile
       /\ ~saving']_vars

\* ------------------------------------------------------------------------
\* Claims about the local cache of a resolved session (checked under SpecOnb)
\* ------------------------------------------------------------------------
\* C24: when the session was resolved as completed from the remote profile
\* (by the listener's status check or by checkExisting's read), then in the
\* main experience the local store holds the flag 'true' and a snapshot with
\* the favorites, recent watches and genre ratings of the remote profile.
C24_ResolvedSessionIsCached ==
  (currentScreen = "main" /\ entry.via \in {"status", "remote"}) =>
    /\ localHas = "true"
    /\ localPref.present
    /\ localPref.favorites = profile.favorites
    /\ localPref.recentWatches = profile.recentWatches

\* ------------------------------------------------------------------------
\* Claims about the signed-in user (checked under SpecAuth)
\* ------------------------------------------------------------------------
\* C25: once the auth-state listener has dealt with every change of the
\* session, the onboarding wizard and the main experience are on the screen
\* only while the authentication service holds a current user whose email is
\* verified.
C25_ScreensNeedVerifiedUser ==
  (currentScreen \in {"onboarding", "main"} /\ listener = "idle") =>
    authUser = "verified"

\* ------------------------------------------------------------------------
\* Claims about settling after sign-in (checked under SpecSettle)
\* ------------------------------------------------------------------------
\* C26: whenever the current user is verified and the remote profile has the
\* completion flag set, the app reaches the main experience and stays there
\* from some point on, in whichever order the listener's status check and
\* handleAuthComplete finish.
C26_SettlesOnMain ==
  []((/\ authUser = "verified"
       /\ profile.exists
       /\ profile.hasCompletedOnboarding)
      => <>[](currentScreen = "main"))

\* the listener showed the main experience, handleAuthComplete put the wizard
\* over it, and checkExisting brought the main experience back
C26_MainAfterAuthComplete ==
  /\ currentScreen = "main"
  /\ entry.via = "remote"
  /\ authUser = "verified"
  /\ handleAuth = NoAuth
  /\ listener = "idle"

\* ------------------------------------------------------------------------
\* Claims about the loads of MovieDetailScreen (checked under SpecMovie)
\* ------------------------------------------------------------------------
\* C27: when loadMovieDetails completes after loadUserData, nothing was edited
\* yet, and the local status and rating equal those of the stored record of
\* the movie, they still equal them afterwards: the details do not put the values of the
\* navigation parameter over the loaded user data.
C27_DetailsKeepUserData ==
  [][(/\ open # NoMovie
      /\ open' = open
      /\ loads = {"details"}
      /\ loads' = {}
      /\ ~hasChanges
      /\ movieDocs[open].exists
      /\ userStatus = movieDocs[open].status
      /\ tempRating = movieDocs[open].rating)
     => /\ userStatus' = movieDocs[open].status
        /\ tempRating' = movieDocs[open].rating]_vars

\* C28: every stored movie record with a rating (1 or more stars) has the
\* status watched; a record with status watchlist or none has no rating.
C28_RatedMeansWatched ==
  \A m \in Movies :
    (movieDocs[m].exists /\ movieDocs[m].rating > 0) =>
      movieDocs[m].status = "watched"

\* a save tapped with a rating and the status watchlist selected after it has
\* written its record
C28_RatedThenWatchlistSaved ==
  /\ save.pc = "getDoc"
  /\ save.userStatus = "watchlist"
  /\ save.tempRating > 0
  /\ movieDocs[save.movie].exists
  /\ movieDocs[save.movie].rating = save.tempRating
  /\ movieDocs[save.movie].status = "watched"

\* ------------------------------------------------------------------------
\* Claims about ChatScreen (checked under SpecChat)
\* ------------------------------------------------------------------------
\* C29: when a sendMessage ends with the error alert and the text back in the
\* field, the message collection is what it was when that sendMessage began:
\* the failed send added nothing, so sending the text again makes no duplicate.
C29_FailedSendAddsNothing ==
  [][(send.pc # "idle" /\ send'.pc = "idle" /\ chatAlert' = "error") =>
       chatMessages' = send.before]_vars

\* ------------------------------------------------------------------------
\* Claims about signing out (checked under SpecAuth)
\* ------------------------------------------------------------------------
\* C30: when a user for whom the onboarding screen wrote the local flag and
\* the preference snapshot signs out of the main experience, the local store
\* holds neither of them afterwards.
C30_SignOutClearsLocalCache ==
  [][(/\ currentScreen = "main"
      /\ localHas = "true"
      /\ localPref.present
      /\ authUser # "none"
      /\ authUser' = "none")
     => (localHas' = "none" /\ ~localPref'.present)]_vars
====
